---- MODULE Spec2Model ----
(***************************************************************************)
(* One device session of the api-monitor discovery engine:                 *)
(*   DeviceService._process_device  (app/services/device_service.py)       *)
(*     -> ApiDiscovery.__init__ / _setup_auth / _get_openid_token /        *)
(*        _refresh_openid_token / _get_auth_token  (app/discovery.py)      *)
(*     -> ApiDiscovery.discover / _discover_from_swagger /                 *)
(*        _discover_from_samples                                           *)
(*                                                                         *)
(* Spec is one device session; FleetSpec is DeviceService.process_devices   *)
(* over a device list; LoopSpec is the runs of process_devices on the      *)
(* event loop (app/api/routes/device.py) with the token-table steps of     *)
(* their sessions; AnalyzerSpec is _analyze_json_structure on JSON objects.*)
(*                                                                         *)
(* Python strings are sequences of chunks (<<"p","w">>), so that the       *)
(* "${VAR}" test and the slicing password[2:-1] are computed, not assumed. *)
(* Python dicts are functions; "k in d" is k \in DOMAIN d, and d[k] on a    *)
(* missing key is a KeyError, modelled where the code can meet it.         *)
(***************************************************************************)
EXTENDS Integers, Sequences, FiniteSets, TLC

VARIABLES
    device_config,  \* the DeviceConfig dict handed to the session
    environ,        \* os.environ
    file,           \* /config/telegraf/token_store.json
    now,            \* time.time()
    pc,             \* position of the session in its code
    session,        \* requests.Session: auth tuple and headers overlay
    auth_token,     \* ApiDiscovery.auth_token
    token_store,    \* ApiDiscovery.token_store (in memory)
    auth_failed,    \* ApiDiscovery.auth_failed
    auth_error,     \* ApiDiscovery.auth_error
    response,       \* local `response` of _discover_from_samples ("unbound" before its first assignment)
    idx,            \* loop position of _discover_from_samples
    counts,         \* local successful_endpoints / failed_endpoints
    api_structure,  \* what discover() returned / is building
    returned,       \* what _process_device returned
    obs,            \* observation of the run: requests issued, path taken
    fleet,          \* DeviceService.process_devices: its device list and counters
    loop,           \* the asyncio event loop: its tasks and the one it is running
    probe           \* a call of _analyze_json_structure: its argument and result

vars == <<device_config, environ, file, now, pc, session, auth_token,
          token_store, auth_failed, auth_error, response, idx, counts,
          api_structure, returned, obs, fleet, loop, probe>>

---------------------------------------------------------------------------
(* Bounds of the model *)

\* time.time() when the session starts
StartTime == 1000
\* how many seconds the clock may advance during one session
MaxTicks == 1
\* request counters saturate here (the setup loop itself is not bounded)
MaxCount == 3

(* Program constants *)

\* 60-second buffer of the validity test
ExpiryBuffer == 60
\* expires_in when the token answer carries none
DefaultExpiresIn == 300
\* a string leaf is a tag when it is shorter than this
MaxTagLength == 80
\* max_depth of _is_deeply_nested
MaxDepth == 5

---------------------------------------------------------------------------
(* Python values *)

None == <<"None">>
EmptyDict == [k \in {} |-> k]

\* dict.get(k, default)
Get(d, k, default) == IF k \in DOMAIN d THEN d[k] ELSE default

\* `not v` for a string-or-None value
Falsy(v) == v = None \/ v = <<>>

\* s.startswith("${") and s.endswith("}")
IsEnvRef(s) ==
    /\ Len(s) >= 2
    /\ s[1] = "$"
    /\ s[2] = "{"
    /\ s[Len(s)] = "}"

\* s[2:-1]
EnvVarName(s) == SubSeq(s, 3, Len(s) - 1)

\* str.upper() on the device names of the model
Upper(s) == CASE s = "d1" -> "D1"
              [] s = "d2" -> "D2"
              [] OTHER -> s

\* A variable named after the device name as it is written
TokenEnvVarAsWritten(name) == <<"DEVICE_", name, "_TOKEN">>

\* f"DEVICE_{name.upper()}_TOKEN"
TokenEnvVar(name) == <<"DEVICE_", Upper(name), "_TOKEN">>

Bearer(token) == <<"Bearer ">> \o token

Bump(n) == IF n < MaxCount THEN n + 1 ELSE n

---------------------------------------------------------------------------
(* Exceptions, as the text str(e) gives *)

KeyError(k) == <<"KeyError", k>>
EnvNotSet(env_var) == <<"Environment variable ">> \o env_var \o <<" not set or empty">>
MissingAuthEndpoint == <<"Missing auth_endpoint configuration">>

---------------------------------------------------------------------------
(* URLs *)

RECURSIVE LStrip(_)
\* path.lstrip('/')
LStrip(s) == IF s # <<>> /\ Head(s) = "/" THEN LStrip(Tail(s)) ELSE s

RECURSIVE RStrip(_)
\* base_url.rstrip('/')
RStrip(s) ==
    IF s # <<>> /\ s[Len(s)] = "/" THEN RStrip(SubSeq(s, 1, Len(s) - 1)) ELSE s

\* f"{base_url.rstrip('/')}/{path.lstrip('/')}"
Url(base_url, path) == RStrip(base_url) \o <<"/">> \o LStrip(path)

---------------------------------------------------------------------------
(* Inputs of a session *)

Opt(k, S) == {EmptyDict} \cup {k :> v : v \in S}
Join(A, B) == {a @@ b : a \in A, b \in B}

DeviceName == "d1"
OtherDevice == "d2"

Username == <<"admin">>
Literal == <<"p", "w">>
RefA == <<"$", "{", "A", "}">>
RefNoName == <<"$", "{", "}">>
\* "${DEVICE_D1_TOKEN}"
RefExported == <<"$", "{", "DEVICE_", "D1", "_TOKEN", "}">>
Unclosed == <<"$", "{", "A">>
Secrets == {Literal, RefA, RefNoName, Unclosed}

AuthEndpoint == <<"/", "login">>
BaseUrl == <<"http://dev", "/">>
SwaggerUrl == <<"http://dev", "/", "swagger.json">>

DiscoveryApis ==
    { EmptyDict,
      "endpoints" :> <<[path |-> AuthEndpoint, method |-> "POST"],
                       [path |-> <<"/", "a">>, method |-> "GET"]>>,
      "endpoints" :> <<[path |-> <<"/", "a">>, method |-> "GET"],
                       [path |-> <<"/", "b">>, method |-> "PUT"]>>,
      "endpoints" :> <<[path |-> <<"/", "a">>, method |-> "GET"],
                       [path |-> <<"/", "b">>]>>,
      ("swagger_url" :> SwaggerUrl)
          @@ ("endpoints" :> <<[path |-> <<"/", "a">>, method |-> "GET"]>>) }

NoneApis == Opt("auth_type", {"none"})

BasicApis ==
    Join({"auth_type" :> "basic"},
         Join(Opt("username", {Username}), Opt("password", Secrets)))

BearerApis == Join({"auth_type" :> "bearer"}, Opt("token", Secrets))

AuthPayloads ==
    { EmptyDict,
      ("user" :> <<"{{username}}">>) @@ ("pass" :> <<"{{password}}">>)
          @@ ("realm" :> <<"local">>) }

TokenPath == <<"data", ".", "token">>

FormApis ==
    Join({"auth_type" :> "token_from_auth"},
         {EmptyDict} \cup
         Join({"auth_endpoint" :> AuthEndpoint},
         Join({"username" :> Username},
         Join(Opt("password", {Literal, RefA}),
         Join(Opt("auth_method", {"GET"}),
         Join(Opt("token_path", {TokenPath}),
              Opt("auth_payload", AuthPayloads)))))))

OidcApis ==
    Join({"auth_type" :> "token_from_auth"},
    Join({"auth_type_extension" :> <<"openid_connect">>},
         {EmptyDict} \cup
         Join({"auth_endpoint" :> AuthEndpoint},
         Join({"username" :> Username},
         Join(Opt("password", {Literal, RefA}),
              Opt("openid_client_id", {<<"cli">>}))))))

IsOidc(api) ==
    /\ Get(api, "auth_type", "none") = "token_from_auth"
    /\ Get(api, "auth_type_extension", None) = <<"openid_connect">>

\* every auth flow with every discovery configuration; the OIDC flow with the
\* default endpoint list and with a swagger_url
Apis ==
    Join({"base_url" :> BaseUrl},
         Join(NoneApis \cup BasicApis \cup BearerApis \cup FormApis, DiscoveryApis)
            \cup Join(OidcApis, {d \in DiscoveryApis :
                                    "swagger_url" \in DOMAIN d <=> "endpoints" \in DOMAIN d}))

\* name and api.base_url are required fields of a DeviceConfig: __init__ reads
\* base_url (line 17) before its try, so every configuration here carries it
DeviceConfigs ==
    {("name" :> DeviceName) @@ ("api" :> a) @@ ("global" :> EmptyDict) : a \in Apis}

\* some credential of the configuration is written "${...}"
UsesEnviron(api) ==
    \E k \in {"password", "token"} : k \in DOMAIN api /\ IsEnvRef(api[k])

Environs == {EmptyDict, <<"A">> :> <<>>, <<"A">> :> <<"s", "3">>}

(* The persisted token table *)

StoredUrl == Url(BaseUrl, AuthEndpoint)

ExpiryTimes ==
    { StartTime - 1,
      StartTime + ExpiryBuffer,
      StartTime + ExpiryBuffer + 1,
      StartTime + ExpiryBuffer + MaxTicks + 1 }

StoredRecords ==
    Join({"access_token" :> <<"a0">>},
    Join(Opt("refresh_token", {None, <<"r0">>}),
    Join({"expires_at" :> t : t \in ExpiryTimes},
    Join({"token_url" :> StoredUrl}, {"client_id" :> <<"webui">>}))))

OtherRecord ==
    ("access_token" :> <<"b0">>) @@ ("refresh_token" :> <<"rb">>)
        @@ ("expires_at" :> StartTime - 1) @@ ("token_url" :> <<"http://other/token">>)
        @@ ("client_id" :> <<"webui">>)

Tables ==
    {EmptyDict} \cup Join(Opt(DeviceName, StoredRecords), {OtherDevice :> OtherRecord})

Files ==
    { [state |-> "missing", table |-> EmptyDict],
      [state |-> "corrupt", table |-> EmptyDict] }
        \cup {[state |-> "ok", table |-> t] : t \in Tables}

(* What a token endpoint can answer.  ok = FALSE stands for a transport   *)
(* error, a timeout, a non-2xx status or a body that is not JSON.         *)
TokenBodies ==
    {EmptyDict, "access_token" :> <<>>} \cup
    Join({"access_token" :> <<"t1">>},
    Join(Opt("refresh_token", {None, <<"r1">>}), Opt("expires_in", {120})))

TokenAnswers ==
    {[ok |-> FALSE, body |-> EmptyDict]} \cup {[ok |-> TRUE, body |-> b] : b \in TokenBodies}

---------------------------------------------------------------------------
(* Initial state: a DeviceConfig from get_devices(), the process           *)
(* environment, the token file on disk, before ApiDiscovery(device).       *)

NoObs ==
    [ refresh |-> 0, password |-> 0, login |-> 0,    \* token / login requests
      swagger |-> 0, sample |-> 0,                   \* discovery requests
      loads |-> 0, saves |-> 0,                      \* token file accesses
      source |-> "none",                             \* where the bearer came from
      refresh_failed |-> FALSE,                      \* a refresh grant failed
      token_data |-> EmptyDict,                      \* record handed to the last refresh grant
      environ0 |-> EmptyDict,                        \* os.environ when the session began
      file0 |-> [state |-> "missing", table |-> EmptyDict], \* token file when it began
      checked_at |-> 0,                              \* clock at the validity test
      written_at |-> 0,                              \* clock at the last record write
      answer |-> [ok |-> FALSE, body |-> EmptyDict], \* last token answer
      saved |-> EmptyDict,                           \* table handed to the last save
      save_ok |-> FALSE,                             \* the last save wrote the file
      config0 |-> EmptyDict,                         \* the DeviceConfig when the session began
      spec |-> "none",                               \* how the swagger_url answered
      answers |-> <<>>,                              \* what each sampled endpoint answered
      generated |-> FALSE,                           \* the configuration was generated and written
      login_answer |-> "none",                       \* how the form-based login ended
      document |-> <<>> ]                            \* the operations of the fetched document

\* process_devices is not running
NoFleet ==
    [ pc |-> "idle", devices |-> <<>>, position |-> 0,
      successful_devices |-> 0, failed_devices |-> 0, handled |-> <<>>,
      environ0 |-> EmptyDict ]      \* os.environ when process_devices began

\* no task is on the event loop
NoLoop == [running |-> 0, tasks |-> <<>>, version |-> 0]

\* the analyzer is not called
NoProbe ==
    [ stage |-> "idle", data |-> [type |-> "null"], metrics |-> <<>>, tags |-> <<>>,
      is_deeply_nested |-> FALSE, endpoint_config |-> EmptyDict ]

\* the session of one device before ApiDiscovery(device)
NewSession ==
    /\ pc = "new"
    /\ session = [auth |-> <<>>, headers |-> EmptyDict]
    /\ auth_token = None
    /\ token_store = EmptyDict
    /\ auth_failed = FALSE
    /\ auth_error = None
    /\ response = [kind |-> "unbound", of |-> <<>>, data |-> <<>>]
    /\ idx = 1
    /\ counts = [successful_endpoints |-> 0, failed_endpoints |-> 0]
    /\ api_structure = EmptyDict
    /\ returned = "pending"

Init ==
    /\ device_config \in DeviceConfigs
    /\ environ \in (IF UsesEnviron(device_config["api"]) THEN Environs ELSE {EmptyDict})
    /\ file \in (IF IsOidc(device_config["api"])
                    THEN Files
                    ELSE {f \in Files : f.state = "missing"})
    /\ now = StartTime
    /\ NewSession
    /\ obs = [NoObs EXCEPT !.environ0 = environ, !.file0 = file,
                           !.config0 = device_config]
    /\ fleet = NoFleet
    /\ loop = NoLoop
    /\ probe = NoProbe

\* The clock advances while the session runs; it is read during setup only.
Tick ==
    /\ pc \in {"new", "setup_auth", "openid", "refresh", "password_grant", "login"}
    /\ now < StartTime + MaxTicks
    /\ now' = now + 1
    /\ UNCHANGED <<fleet, loop, probe>>
    /\ UNCHANGED <<device_config, environ, file, pc, session, auth_token,
                   token_store, auth_failed, auth_error, response, idx, counts,
                   api_structure, returned, obs>>

---------------------------------------------------------------------------
(* ApiDiscovery.__init__ *)

\* lines 15-29: fields are set, "global" is ensured
Construct ==
    /\ pc = "new"
    /\ device_config' = IF "global" \in DOMAIN device_config
                           THEN device_config
                           ELSE device_config @@ ("global" :> EmptyDict)
    /\ session' = [auth |-> <<>>, headers |-> EmptyDict]
    /\ auth_token' = None
    /\ token_store' = EmptyDict
    /\ auth_failed' = FALSE
    /\ auth_error' = None
    /\ pc' = "setup_auth"
    /\ UNCHANGED <<fleet, loop, probe>>
    /\ UNCHANGED <<environ, file, now, response, idx, counts, api_structure,
                   returned, obs>>

AuthType == Get(device_config["api"], "auth_type", "none")

\* An "except Exception as e" of _setup_auth: flag, prefix the text, re-raise
SetupExcept(prefix, e) ==
    [auth_failed |-> TRUE, auth_error |-> prefix \o e, exc |-> e]

\* What leaves __init__ without its try/except: the exception propagates
InitNoCatch(f) ==
    [auth_failed |-> f.auth_failed, auth_error |-> f.auth_error, raised |-> TRUE]

\* lines 32-39: the try/except around _setup_auth()
InitCatch(f) ==
    [auth_failed |-> TRUE, auth_error |-> f.exc, raised |-> FALSE]

\* the session after _setup_auth raised
SetupRaised(prefix, e) ==
    LET f == InitCatch(SetupExcept(prefix, e))
    IN  /\ auth_failed' = f.auth_failed
        /\ auth_error' = f.auth_error
        /\ pc' = IF f.raised THEN "raised" ELSE "constructed"

\* _setup_auth for an auth_type it has no branch for ("none" included)
SetupAuthNone ==
    /\ pc = "setup_auth"
    /\ AuthType \notin {"basic", "bearer", "token_from_auth"}
    /\ pc' = "constructed"
    /\ UNCHANGED <<fleet, loop, probe>>
    /\ UNCHANGED <<device_config, environ, file, now, session, auth_token,
                   token_store, auth_failed, auth_error, response, idx, counts,
                   api_structure, returned, obs>>

\* The no-check variant: an unset variable resolves to the empty string
ResolveSecretNoCheck(api, key, env) ==
    IF key \notin DOMAIN api
    THEN [ok |-> FALSE, err |-> KeyError(key)]
    ELSE IF IsEnvRef(api[key])
         THEN [ok |-> TRUE, value |-> Get(env, EnvVarName(api[key]), <<>>)]
         ELSE [ok |-> TRUE, value |-> api[key]]

\* lines 46-54 / 66-74: the credential, "${VAR}" resolved against os.environ;
\* a missing or empty variable raises ValueError
ResolveSecret(api, key, env) ==
    IF key \notin DOMAIN api
    THEN [ok |-> FALSE, err |-> KeyError(key)]
    ELSE IF IsEnvRef(api[key])
         THEN LET env_var == EnvVarName(api[key])
                  value == Get(env, env_var, <<>>)
              IN  IF Falsy(value)
                  THEN [ok |-> FALSE, err |-> EnvNotSet(env_var)]
                  ELSE [ok |-> TRUE, value |-> value]
         ELSE [ok |-> TRUE, value |-> api[key]]

\* lines 43-62
SetupAuthBasic ==
    /\ pc = "setup_auth"
    /\ AuthType = "basic"
    /\ LET api == device_config["api"]
           password == ResolveSecret(api, "password", environ)
       IN  IF "username" \notin DOMAIN api
           THEN /\ SetupRaised(<<"Basic auth setup failed: ">>, KeyError("username"))
                /\ UNCHANGED session
           ELSE IF ~password.ok
           THEN /\ SetupRaised(<<"Basic auth setup failed: ">>, password.err)
                /\ UNCHANGED session
           ELSE /\ session' = [session EXCEPT !.auth = <<api["username"], password.value>>]
                /\ pc' = "constructed"
                /\ UNCHANGED <<auth_failed, auth_error>>
    /\ UNCHANGED <<fleet, loop, probe>>
    /\ UNCHANGED <<device_config, environ, file, now, auth_token, token_store,
                   response, idx, counts, api_structure, returned, obs>>

\* lines 64-82
SetupAuthBearer ==
    /\ pc = "setup_auth"
    /\ AuthType = "bearer"
    /\ LET token == ResolveSecret(device_config["api"], "token", environ)
       IN  IF ~token.ok
           THEN /\ SetupRaised(<<"Bearer token setup failed: ">>, token.err)
                /\ UNCHANGED session
           ELSE /\ session' = [session EXCEPT
                                 !.headers = ("Authorization" :> Bearer(token.value)) @@ @]
                /\ pc' = "constructed"
                /\ UNCHANGED <<auth_failed, auth_error>>
    /\ UNCHANGED <<fleet, loop, probe>>
    /\ UNCHANGED <<device_config, environ, file, now, auth_token, token_store,
                   response, idx, counts, api_structure, returned, obs>>

\* lines 84-104: dispatch of token_from_auth
SetupAuthToken ==
    /\ pc = "setup_auth"
    /\ AuthType = "token_from_auth"
    /\ LET api == device_config["api"]
       IN  IF "auth_endpoint" \notin DOMAIN api
           THEN SetupRaised(<<"Token auth setup failed: ">>, MissingAuthEndpoint)
           ELSE /\ pc' = IF Get(api, "auth_type_extension", None) = <<"openid_connect">>
                            THEN "openid"
                            ELSE "login"
                /\ UNCHANGED <<auth_failed, auth_error>>
    /\ UNCHANGED <<fleet, loop, probe>>
    /\ UNCHANGED <<device_config, environ, file, now, session, auth_token,
                   token_store, response, idx, counts, api_structure, returned, obs>>

---------------------------------------------------------------------------
(* The OpenID Connect flow *)

\* lines 280-289: the table json.load gives, or the table in memory when the
\* file is missing or cannot be read (load_ok = FALSE: open or json.load raised)
LoadTokenStore(f, store, load_ok) ==
    IF f.state = "ok" /\ load_ok THEN f.table ELSE store

\* A save that leaves the file as it is
SaveTokenStoreSkipped(f, store, outcome) == f

\* lines 291-300: the file after _save_token_store; the write can fail before
\* the file is opened ("fail") or after open(..., "w") truncated it ("cut")
SaveTokenStore(f, store, outcome) ==
    CASE outcome = "ok" -> [state |-> "ok", table |-> store]
      [] outcome = "cut" -> [state |-> "corrupt", table |-> EmptyDict]
      [] OTHER -> f

SaveOutcomes == {"ok", "fail", "cut"}

\* A validity test that forgets the buffer
IsValidNoBuffer(token_data, t) == Get(token_data, "expires_at", 0) > t

\* lines 119-121: the stored access token is still valid, 60-second buffer
IsValid(token_data, t) == Get(token_data, "expires_at", 0) > t + ExpiryBuffer

\* line 131: the record can be refreshed
CanRefresh(token_data) == "refresh_token" \in DOMAIN token_data

\* lines 140-142 / 311-313: "${VAR}" resolved, an unset variable gives ""
ResolvePassword(password, env) ==
    IF IsEnvRef(password) THEN Get(env, EnvVarName(password), <<>>) ELSE password

\* lines 106-133: load the table, then reuse, refresh or go on to the password grant
GetOpenidToken ==
    /\ pc = "openid"
    /\ \E load_ok \in BOOLEAN :
        LET store == LoadTokenStore(file, token_store, load_ok)
            known == device_config["name"] \in DOMAIN store
        IN  /\ file.state = "missing" => load_ok
            /\ file.state = "corrupt" => ~load_ok
            /\ token_store' = store
            /\ IF known /\ IsValid(store[device_config["name"]], now)
               THEN /\ auth_token' = store[device_config["name"]]["access_token"]
                    /\ session' = [session EXCEPT
                          !.headers = ("Authorization" :> Bearer(auth_token')) @@ @]
                    /\ pc' = "constructed"
                    /\ obs' = [obs EXCEPT !.loads = Bump(@), !.source = "stored",
                                          !.checked_at = now]
               ELSE /\ pc' = IF known /\ CanRefresh(store[device_config["name"]])
                                THEN "refresh"
                                ELSE "password_grant"
                    /\ obs' = [obs EXCEPT !.loads = Bump(@), !.checked_at = now]
                    /\ UNCHANGED <<auth_token, session>>
    /\ UNCHANGED <<fleet, loop, probe>>
    /\ UNCHANGED <<device_config, environ, file, now, auth_failed, auth_error,
                   response, idx, counts, api_structure, returned>>

\* A refresh that always takes the answer's refresh_token
RefreshedRecordNoKeep(token_data, body, t) ==
    ("access_token" :> body["access_token"])
        @@ ("refresh_token" :> Get(body, "refresh_token", None))
        @@ ("expires_at" :> t + Get(body, "expires_in", DefaultExpiresIn))
        @@ ("token_url" :> token_data["token_url"])
        @@ ("client_id" :> token_data["client_id"])

\* lines 243-267: the record written after a refresh-token grant
RefreshedRecord(token_data, body, t) ==
    ("access_token" :> body["access_token"])
        @@ ("refresh_token" :> Get(body, "refresh_token", token_data["refresh_token"]))
        @@ ("expires_at" :> t + Get(body, "expires_in", DefaultExpiresIn))
        @@ ("token_url" :> token_data["token_url"])
        @@ ("client_id" :> token_data["client_id"])

\* lines 214-278: the refresh-token grant; its "except" calls _get_openid_token
RefreshOpenidToken ==
    /\ pc = "refresh"
    /\ \E answer \in TokenAnswers, outcome \in SaveOutcomes :
        LET token_data == token_store[device_config["name"]]
            sent == [obs EXCEPT !.refresh = Bump(@), !.answer = answer,
                                !.token_data = token_data]
        IN  IF ~answer.ok
            THEN /\ outcome = "ok"
                 /\ pc' = "openid"
                 /\ obs' = [sent EXCEPT !.refresh_failed = TRUE]
                 /\ UNCHANGED <<auth_token, session, token_store, file>>
            ELSE IF Falsy(Get(answer.body, "access_token", None))
            THEN /\ outcome = "ok"
                 /\ pc' = "constructed"
                 /\ obs' = sent
                 /\ UNCHANGED <<auth_token, session, token_store, file>>
            ELSE /\ auth_token' = answer.body["access_token"]
                 /\ session' = [session EXCEPT
                       !.headers = ("Authorization" :> Bearer(auth_token')) @@ @]
                 /\ token_store' = (device_config["name"] :> RefreshedRecord(token_data, answer.body, now))
                                       @@ token_store
                 /\ file' = SaveTokenStore(file, token_store', outcome)
                 /\ pc' = "constructed"
                 /\ obs' = [sent EXCEPT !.saves = Bump(@), !.source = "refresh",
                                        !.written_at = now, !.saved = token_store',
                                        !.save_ok = (outcome = "ok")]
    /\ UNCHANGED <<fleet, loop, probe>>
    /\ UNCHANGED <<device_config, environ, now, auth_failed, auth_error,
                   response, idx, counts, api_structure, returned>>

\* A grant that stores the lifetime instead of the time of expiry
GrantedRecordRelative(api, body, t) ==
    ("access_token" :> body["access_token"])
        @@ ("refresh_token" :> Get(body, "refresh_token", None))
        @@ ("expires_at" :> Get(body, "expires_in", DefaultExpiresIn))
        @@ ("token_url" :> Url(api["base_url"], api["auth_endpoint"]))
        @@ ("client_id" :> Get(api, "openid_client_id", <<"webui">>))

\* lines 180-202: the record written after a password grant
GrantedRecord(api, body, t) ==
    ("access_token" :> body["access_token"])
        @@ ("refresh_token" :> Get(body, "refresh_token", None))
        @@ ("expires_at" :> t + Get(body, "expires_in", DefaultExpiresIn))
        @@ ("token_url" :> Url(api["base_url"], api["auth_endpoint"]))
        @@ ("client_id" :> Get(api, "openid_client_id", <<"webui">>))

\* lines 135-212: the password grant; every exception ends in the "except" of
\* line 211, which logs and returns
PasswordGrant ==
    /\ pc = "password_grant"
    /\ LET api == device_config["api"]
       IN  IF "username" \notin DOMAIN api \/ "password" \notin DOMAIN api
           THEN /\ pc' = "constructed"
                /\ UNCHANGED <<auth_token, session, token_store, file, obs>>
           ELSE \E answer \in TokenAnswers, outcome \in SaveOutcomes :
                LET sent == [obs EXCEPT !.password = Bump(@), !.answer = answer]
                IN  IF ~answer.ok \/ Falsy(Get(answer.body, "access_token", None))
                    THEN /\ outcome = "ok"
                         /\ pc' = "constructed"
                         /\ obs' = sent
                         /\ UNCHANGED <<auth_token, session, token_store, file>>
                    ELSE /\ auth_token' = answer.body["access_token"]
                         /\ session' = [session EXCEPT
                               !.headers = ("Authorization" :> Bearer(auth_token')) @@ @]
                         /\ token_store' = (device_config["name"] :> GrantedRecord(api, answer.body, now))
                                               @@ token_store
                         /\ file' = SaveTokenStore(file, token_store', outcome)
                         /\ pc' = "constructed"
                         /\ obs' = [sent EXCEPT !.saves = Bump(@), !.source = "password",
                                                !.written_at = now, !.saved = token_store',
                                                !.save_ok = (outcome = "ok")]
    /\ UNCHANGED <<fleet, loop, probe>>
    /\ UNCHANGED <<device_config, environ, now, auth_failed, auth_error,
                   response, idx, counts, api_structure, returned>>

---------------------------------------------------------------------------
(* The form-based login flow *)

\* JSON values of a login answer
JObj(d) == [type |-> "dict", items |-> d]
JStr(v) == [type |-> "str", value |-> v]
JNull == [type |-> "null"]

\* A path taken as one key
SplitWhole(s) == <<s>>

RECURSIVE Split(_)
\* path.split(".")
Split(s) ==
    IF s = <<>>
    THEN << <<>> >>
    ELSE LET rest == Split(Tail(s))
         IN  IF Head(s) = "."
             THEN << <<>> >> \o rest
             ELSE << <<Head(s)>> \o rest[1] >> \o Tail(rest)

RECURSIVE Walk(_, _)
Walk(current, parts) ==
    IF parts = <<>>
    THEN current
    ELSE IF current.type = "dict" /\ Head(parts) \in DOMAIN current.items
         THEN Walk(current.items[Head(parts)], Tail(parts))
         ELSE JNull

\* lines 367-378
ExtractNestedValue(data, path) == Walk(data, Split(path))

\* `if token:` on the extracted value
Truthy(v) == v.type = "str" /\ v.value # <<>>

LoginDocs ==
    { JObj(<<"token">> :> JStr(<<"tk">>)),
      JObj(EmptyDict),
      JObj(<<"token">> :> JStr(<<>>)),
      JObj(<<"token">> :> JNull),
      JObj(<<"data">> :> JObj(<<"token">> :> JStr(<<"tk2">>))),
      JObj(<<"data">> :> JStr(<<"x">>)) }

\* ok = FALSE: transport error, timeout, non-2xx status, body that is not JSON
LoginAnswers ==
    {[ok |-> FALSE, data |-> JNull]} \cup {[ok |-> TRUE, data |-> d] : d \in LoginDocs}

\* lines 322-327: the placeholders of the configured payload, replaced in place
Substitute(auth_payload, username, password) ==
    [k \in DOMAIN auth_payload |->
        IF auth_payload[k] = <<"{{username}}">> THEN username
        ELSE IF auth_payload[k] = <<"{{password}}">> THEN password
        ELSE auth_payload[k]]

\* lines 336-362: how the login ends: the request or response.json() raised
\* ("error"), no truthy value at token_path ("no_token"), a token
LoginOutcome(answer, token) ==
    IF ~answer.ok THEN "error"
    ELSE IF ~Truthy(token) THEN "no_token"
    ELSE "token"

\* A login that flags the device when it ends without a token
LoginFlagOnFailure(failed, outcome) == failed \/ outcome # "token"

\* lines 359-365: both failure branches only log; auth_failed stays as it was
LoginFlag(failed, outcome) == failed

\* lines 302-365 when the login endpoint gives one of `answers`; every
\* exception ends in the "except" of line 364
Login(answers) ==
    /\ pc = "login"
    /\ pc' = "constructed"
    /\ LET api == device_config["api"]
       IN  IF "username" \notin DOMAIN api \/ "password" \notin DOMAIN api
           THEN UNCHANGED <<device_config, environ, auth_token, session, obs,
                            auth_failed>>
           ELSE \E answer \in answers :
                LET password == ResolvePassword(api["password"], environ)
                    auth_payload == Get(api, "auth_payload", EmptyDict)
                    token == ExtractNestedValue(answer.data,
                                                Get(api, "token_path", <<"token">>))
                IN  /\ device_config' =
                          IF auth_payload = EmptyDict
                          THEN device_config
                          ELSE [device_config EXCEPT !["api"] =
                                  [@ EXCEPT !["auth_payload"] =
                                      Substitute(auth_payload, api["username"], password)]]
                    /\ obs' = [obs EXCEPT !.login = Bump(@),
                                          !.source = IF answer.ok /\ Truthy(token)
                                                        THEN "login" ELSE @,
                                          !.login_answer = LoginOutcome(answer, token)]
                    /\ auth_failed' = LoginFlag(auth_failed, LoginOutcome(answer, token))
                    /\ IF answer.ok /\ Truthy(token)
                       THEN /\ auth_token' = token.value
                            /\ environ' = (TokenEnvVar(device_config["name"]) :> token.value)
                                              @@ environ
                            /\ session' = [session EXCEPT
                                  !.headers = ("Authorization" :> Bearer(token.value)) @@ @]
                       ELSE UNCHANGED <<auth_token, environ, session>>
    /\ UNCHANGED <<fleet, loop, probe>>
    /\ UNCHANGED <<file, now, token_store, auth_error, response,
                   idx, counts, api_structure, returned>>

\* _get_auth_token against a login endpoint that may answer anything
GetAuthToken == Login(LoginAnswers)

---------------------------------------------------------------------------
(* The Structural Analyzer *)

\* JSON values of a sampled body.  A dict keeps its items in document order:
\* pairs is the sequence of its [key, value] items.
JInt == [type |-> "int"]
JFloat == [type |-> "float"]
JBool == [type |-> "bool"]
JList(items) == [type |-> "list", items |-> items]
JDict(pairs) == [type |-> "dict", pairs |-> pairs]

\* isinstance(value, (int, float)); bool is a subclass of int
IsNumber(value) == value.type \in {"int", "float", "bool"}

\* path.replace(".", "_")
Replace(path) == [i \in 1..Len(path) |-> IF path[i] = "." THEN "_" ELSE path[i]]

\* lines 617-623
Metric(path, value) ==
    [path |-> path, name |-> Replace(path),
     type |-> IF value.type = "float" THEN "float" ELSE "int"]

\* line 625
Tag(path) == [path |-> path, name |-> Replace(path)]

NoFindings == [metrics |-> <<>>, tags |-> <<>>]

\* An analyzer that samples the last item of an array
SampleLast(items) == items[Len(items)]

\* line 632: sample = data[0]
Sample(items) == items[1]

RECURSIVE AnalyzeJsonStructure(_, _)
RECURSIVE AnalyzeItems(_, _)

\* lines 610-638
AnalyzeJsonStructure(data, prefix) ==
    IF data.type = "dict"
    THEN AnalyzeItems(data.pairs, prefix)
    ELSE IF data.type = "list" /\ data.items # <<>>
    THEN AnalyzeJsonStructure(Sample(data.items), prefix \o <<"[*]">>)
    ELSE NoFindings

\* lines 611-630: the loop over the items of a dict
AnalyzeItems(pairs, prefix) ==
    IF pairs = <<>>
    THEN NoFindings
    ELSE LET key == Head(pairs).key
             value == Head(pairs).value
             path == IF prefix # <<>> THEN prefix \o <<".">> \o key ELSE key
             here == IF IsNumber(value)
                     THEN [metrics |-> <<Metric(path, value)>>, tags |-> <<>>]
                     ELSE IF value.type = "str" /\ Len(value.value) < MaxTagLength
                     THEN [metrics |-> <<>>, tags |-> <<Tag(path)>>]
                     ELSE IF value.type \in {"dict", "list"}
                     THEN AnalyzeJsonStructure(value, path)
                     ELSE NoFindings
             rest == AnalyzeItems(Tail(pairs), prefix)
         IN  [metrics |-> here.metrics \o rest.metrics,
              tags |-> here.tags \o rest.tags]

RECURSIVE CheckDepth(_, _)
\* lines 590-601
CheckDepth(obj, current_depth) ==
    IF current_depth >= MaxDepth
    THEN TRUE
    ELSE IF obj.type = "dict"
    THEN \E i \in 1..Len(obj.pairs) : CheckDepth(obj.pairs[i].value, current_depth + 1)
    ELSE IF obj.type = "list" /\ obj.items # <<>>
    THEN CheckDepth(obj.items[1], current_depth + 1)
    ELSE FALSE

\* lines 578-603
IsDeeplyNested(data) ==
    IF data.type \notin {"dict", "list"} THEN FALSE
    ELSE IF data.type = "dict" /\ data.pairs = <<>> THEN FALSE
    ELSE IF data.type = "list" /\ data.items = <<>> THEN FALSE
    ELSE CheckDepth(data, 0)

---------------------------------------------------------------------------
(* ApiDiscovery.discover *)

\* A discover() that does not look at auth_failed
DiscoverBranchNoSkip(failed, api) ==
    IF "swagger_url" \in DOMAIN api THEN "swagger" ELSE "samples"

\* lines 383-400: which way discover() goes
DiscoverBranch(failed, api) ==
    IF failed THEN "discovered"
    ELSE IF "swagger_url" \in DOMAIN api THEN "swagger" ELSE "samples"

\* line 387
AuthFailedStructure(error) ==
    [endpoints |-> <<>>, auth_failed |-> TRUE, error |-> error]

\* line 463
EmptySampleStructure == [endpoints |-> <<>>, samples |-> EmptyDict]

Discover ==
    /\ pc = "constructed"
    /\ pc' = DiscoverBranch(auth_failed, device_config["api"])
    /\ api_structure' = CASE pc' = "discovered" -> AuthFailedStructure(auth_error)
                           [] pc' = "samples" -> EmptySampleStructure
                           [] OTHER -> api_structure
    /\ UNCHANGED <<fleet, loop, probe>>
    /\ UNCHANGED <<device_config, environ, file, now, session, auth_token,
                   token_store, auth_failed, auth_error, response, idx, counts,
                   returned, obs>>

(* Specification-driven discovery *)

\* A fallback that logs in again before sampling
SwaggerFallbackReauth(api) ==
    IF Get(api, "auth_type", "none") = "token_from_auth" /\ "auth_endpoint" \in DOMAIN api
    THEN IF IsOidc(api) THEN "openid" ELSE "login"
    ELSE "samples"

\* A discover() that answers the failed specification with nothing
SwaggerFallbackNone(api) == "discovered"

\* lines 393-398: where discover() goes when _discover_from_swagger raised
SwaggerFallback(api) == "samples"

LowerMethod(m) == CASE m = "GET" -> "get" [] m = "POST" -> "post"
                    [] m = "PUT" -> "put" [] OTHER -> m
UpperMethod(m) == CASE m = "get" -> "GET" [] m = "post" -> "POST"
                    [] m = "put" -> "PUT" [] OTHER -> m

RECURSIVE LastSchema(_)
\* lines 437-444: every 2xx response with a schema overwrites responses["schema"]
LastSchema(responses) ==
    IF responses = <<>>
    THEN EmptyDict
    ELSE LET r == responses[Len(responses)]
         IN  IF Head(r.status) = "2" /\ "schema" \in DOMAIN r.spec
             THEN "schema" :> r.spec["schema"]
             ELSE LastSchema(SubSeq(responses, 1, Len(responses) - 1))

RECURSIVE SwaggerEndpoints(_)
\* lines 424-446, over the operations of the document in document order
SwaggerEndpoints(operations) ==
    IF operations = <<>>
    THEN <<>>
    ELSE LET op == Head(operations)
         IN  (IF LowerMethod(op.method) \in {"get", "post"}
              THEN << [path |-> op.path, method |-> UpperMethod(op.method),
                       responses |-> LastSchema(op.responses)] >>
              ELSE <<>>) \o SwaggerEndpoints(Tail(operations))

SwaggerDocs ==
    { <<>>,
      << [path |-> <<"/", "b">>, method |-> "put", responses |-> <<>>] >>,
      << [path |-> <<"/", "a">>, method |-> "get",
          responses |-> << [status |-> <<"2", "00">>, spec |-> "schema" :> <<"S1">>],
                           [status |-> <<"2", "01">>, spec |-> "schema" :> <<"S2">>],
                           [status |-> <<"2", "04">>, spec |-> EmptyDict],
                           [status |-> <<"4", "04">>, spec |-> "schema" :> <<"E">>] >>],
         [path |-> <<"/", "a">>, method |-> "put", responses |-> <<>>] >> }

\* ok = FALSE: the fetch failed (connection error, timeout, error status), or
\* the body is not JSON or not a JSON object; ok = TRUE: a document, listed by
\* its operations in document order (none when it has no "paths")
SwaggerAnswers ==
    {[ok |-> FALSE, why |-> w, doc |-> <<>>] : w \in {"fetch", "body"}}
        \cup {[ok |-> TRUE, why |-> "doc", doc |-> d] : d \in SwaggerDocs}

\* lines 402-459 and the fallback of lines 393-398
DiscoverFromSwagger ==
    /\ pc = "swagger"
    /\ \E answer \in SwaggerAnswers :
        /\ obs' = [obs EXCEPT !.swagger = Bump(@),
                              !.spec = IF ~answer.ok THEN answer.why
                                       ELSE IF SwaggerEndpoints(answer.doc) = <<>>
                                       THEN "empty" ELSE "found",
                              !.document = answer.doc]
        /\ IF answer.ok
           THEN /\ api_structure' = [endpoints |-> SwaggerEndpoints(answer.doc),
                                     data_models |-> EmptyDict]
                /\ pc' = "discovered"
           ELSE /\ pc' = SwaggerFallback(device_config["api"])
                /\ api_structure' = EmptySampleStructure
    /\ UNCHANGED <<fleet, loop, probe>>
    /\ UNCHANGED <<device_config, environ, file, now, session, auth_token,
                   token_store, auth_failed, auth_error, response, idx, counts,
                   returned>>

(* Sampling-driven discovery *)

\* lines 466-468
Endpoints(api) ==
    Get(api, "endpoints", <<[path |-> <<>>, method |-> "GET"]>>)

\* A loop that skips nothing
IsAuthEndpointNever(api, path) == FALSE

\* lines 478-481
IsAuthEndpoint(api, path) ==
    /\ Get(api, "auth_type", "none") = "token_from_auth"
    /\ Get(api, "auth_endpoint", None) = path

\* what a sampled endpoint can answer: no answer at all (connection error,
\* timeout), an error status, a body that is not JSON, a JSON body
SampleAnswers ==
    { [kind |-> "transport", of |-> <<>>, data |-> <<>>],
      [kind |-> "status", of |-> <<>>, data |-> <<>>],
      [kind |-> "text", of |-> <<>>, data |-> <<>>],
      [kind |-> "json", of |-> <<>>,
       data |-> JDict(<< [key |-> <<"v">>, value |-> JInt],
                         [key |-> <<"s">>, value |-> JStr(<<"u", "p">>)] >>)] }

\* lines 474-475: endpoint["path"] or endpoint["method"] is a KeyError
Malformed(endpoint) == "path" \notin DOMAIN endpoint \/ "method" \notin DOMAIN endpoint
MissingKey(endpoint) ==
    KeyError(IF "path" \notin DOMAIN endpoint THEN "path" ELSE "method")

\* lines 489-494: the methods for which a request is issued
Requested(endpoint) == endpoint.method \in {"GET", "POST"}

\* lines 489-494: the local `response` after them; a request that raised and a
\* method without request leave it as it was
ResponseAfter(endpoint, resp, answer) ==
    IF Requested(endpoint) /\ answer.kind # "transport"
    THEN [answer EXCEPT !.of = endpoint.path]
    ELSE resp

\* lines 489-567: how the iteration ends; "unbound" is the UnboundLocalError
\* of line 496
Outcome(endpoint, resp, answer) ==
    IF Requested(endpoint) /\ answer.kind = "transport"
    THEN "transport"
    ELSE ResponseAfter(endpoint, resp, answer).kind

\* str(e) of the exception that ended the iteration
ErrorDetail(kind) ==
    CASE kind = "transport" -> <<"ConnectionError">>
      [] kind = "status" -> <<"HTTPError">>
      [] OTHER -> <<"UnboundLocalError">>

\* A descriptor whose Metrics and Tags move into the projection when the
\* payload is deeply nested
DescriptorProjected(endpoint, kind, resp) ==
    LET head == ("path" :> endpoint.path) @@ ("method" :> endpoint.method)
    IN  IF kind = "json"
        THEN LET found == AnalyzeJsonStructure(resp.data, <<>>)
                 nested == IsDeeplyNested(resp.data)
                 kept == IF nested THEN NoFindings ELSE found
             IN  head @@ ("metrics" :> kept.metrics) @@ ("tags" :> kept.tags)
                      @@ ("status" :> "ok")
                      @@ (IF nested THEN "nested_json" :> TRUE ELSE EmptyDict)
                      @@ (IF nested /\ (found.metrics # <<>> \/ found.tags # <<>>)
                          THEN "jsonv2_config" :> [fields |-> found.metrics,
                                                   tags |-> found.tags]
                          ELSE EmptyDict)
        ELSE IF kind = "text"
        THEN head @@ ("status" :> "non-json") @@ ("content_type" :> <<"text/plain">>)
        ELSE head @@ ("status" :> "error") @@ ("error" :> ErrorDetail(kind))

\* lines 496-567 for the response at hand: the descriptor
Descriptor(endpoint, kind, resp) ==
    LET head == ("path" :> endpoint.path) @@ ("method" :> endpoint.method)
    IN  IF kind = "json"
        THEN LET found == AnalyzeJsonStructure(resp.data, <<>>)
                 nested == IsDeeplyNested(resp.data)
             IN  head @@ ("metrics" :> found.metrics) @@ ("tags" :> found.tags)
                      @@ ("status" :> "ok")
                      @@ (IF nested THEN "nested_json" :> TRUE ELSE EmptyDict)
                      @@ (IF nested /\ (found.metrics # <<>> \/ found.tags # <<>>)
                          THEN "jsonv2_config" :> [fields |-> found.metrics,
                                                   tags |-> found.tags]
                          ELSE EmptyDict)
        ELSE IF kind = "text"
        THEN head @@ ("status" :> "non-json") @@ ("content_type" :> <<"text/plain">>)
        ELSE head @@ ("status" :> "error") @@ ("error" :> ErrorDetail(kind))

\* Counters that forget the failures
CountedOnlyOk(cnt, kind) ==
    IF kind = "json" THEN [cnt EXCEPT !.successful_endpoints = @ + 1] ELSE cnt

\* lines 502, 549, 562: the two counters after the iteration
Counted(cnt, kind) ==
    CASE kind = "json" -> [cnt EXCEPT !.successful_endpoints = @ + 1]
      [] kind = "text" -> cnt
      [] OTHER -> [cnt EXCEPT !.failed_endpoints = @ + 1]

\* A structure that records the parsed answers only
RecordedOkOnly(structure, endpoint, kind, resp) ==
    IF kind = "json"
    THEN [endpoints |-> Append(structure.endpoints, Descriptor(endpoint, kind, resp)),
          samples |-> (endpoint.path :> resp.data) @@ structure.samples]
    ELSE structure

\* lines 529-566: api_structure after the iteration
Recorded(structure, endpoint, kind, resp) ==
    [endpoints |-> Append(structure.endpoints, Descriptor(endpoint, kind, resp)),
     samples |-> IF kind = "json"
                    THEN (endpoint.path :> resp.data) @@ structure.samples
                    ELSE structure.samples]

\* the locals of _discover_from_samples when its loop begins
FirstIteration ==
    [response |-> [kind |-> "unbound", of |-> <<>>, data |-> <<>>],
     counts |-> [successful_endpoints |-> 0, failed_endpoints |-> 0],
     api_structure |-> EmptySampleStructure,
     raised |-> <<>>]

\* lines 486-567: one endpoint sampled, on the locals st
SampleStep(st, endpoint, answer) ==
    LET resp == ResponseAfter(endpoint, st.response, answer)
        kind == Outcome(endpoint, st.response, answer)
    IN  [st EXCEPT !.response = resp,
                   !.counts = Counted(st.counts, kind),
                   !.api_structure = Recorded(st.api_structure, endpoint, kind, resp)]

\* lines 569-576
WithSummary(structure, total, cnt) ==
    ("summary" :> [total_endpoints |-> total,
                   successful_endpoints |-> cnt.successful_endpoints,
                   failed_endpoints |-> cnt.failed_endpoints])
        @@ structure

\* device_service.py lines 77-81: the structure kept when discover() raised
MinimalStructure(error) == [endpoints |-> <<>>, error |-> error, status |-> "error"]

\* one iteration of the loop of lines 473-567
SampleEndpoint ==
    /\ pc = "samples"
    /\ LET api == device_config["api"]
           endpoints == Endpoints(api)
       IN  /\ idx <= Len(endpoints)
           /\ idx' = idx + 1
           /\ LET endpoint == endpoints[idx]
              IN  IF Malformed(endpoint)
                  THEN /\ pc' = "discovered"
                       /\ api_structure' = MinimalStructure(MissingKey(endpoint))
                       /\ UNCHANGED <<response, counts, obs>>
                  ELSE IF IsAuthEndpoint(api, endpoint.path)
                  THEN UNCHANGED <<pc, api_structure, response, counts, obs>>
                  ELSE \E answer \in SampleAnswers :
                       LET after == SampleStep([response |-> response,
                                                counts |-> counts,
                                                api_structure |-> api_structure,
                                                raised |-> <<>>],
                                               endpoint, answer)
                       IN  /\ ~Requested(endpoint) => answer.kind = "transport"
                           /\ response' = after.response
                           /\ counts' = after.counts
                           /\ api_structure' = after.api_structure
                           /\ obs' = [obs EXCEPT
                                 !.sample = IF Requested(endpoint) THEN Bump(@) ELSE @,
                                 !.answers = Append(@, [path |-> endpoint.path,
                                                        requested |-> Requested(endpoint),
                                                        answer |-> answer])]
                           /\ pc' = pc
    /\ UNCHANGED <<fleet, loop, probe>>
    /\ UNCHANGED <<device_config, environ, file, now, session, auth_token,
                   token_store, auth_failed, auth_error, returned>>

\* lines 569-576
SamplesDone ==
    /\ pc = "samples"
    /\ LET endpoints == Endpoints(device_config["api"])
       IN  /\ idx > Len(endpoints)
           /\ api_structure' = WithSummary(api_structure, Len(endpoints), counts)
    /\ pc' = "discovered"
    /\ UNCHANGED <<fleet, loop, probe>>
    /\ UNCHANGED <<device_config, environ, file, now, session, auth_token,
                   token_store, auth_failed, auth_error, response, idx, counts,
                   returned, obs>>

RECURSIVE SampleLoop(_, _, _, _)
\* the loop of lines 473-567 as a whole, over the endpoints that remain; every
\* endpoint that is not skipped takes the next of `answers`
SampleLoop(api, endpoints, answers, st) ==
    IF endpoints = <<>>
    THEN st
    ELSE LET endpoint == Head(endpoints)
         IN  IF Malformed(endpoint)
             THEN [st EXCEPT !.raised = MissingKey(endpoint)]
             ELSE IF IsAuthEndpoint(api, endpoint.path)
             THEN SampleLoop(api, Tail(endpoints), answers, st)
             ELSE IF answers = <<>>
             THEN st
             ELSE SampleLoop(api, Tail(endpoints), Tail(answers),
                             SampleStep(st, endpoint, Head(answers).answer))

\* lines 461-576: what a sampling run over `answers` leaves as the api_structure
\* of _process_device
DiscoverFromSamples(api, answers) ==
    LET endpoints == Endpoints(api)
        end == SampleLoop(api, endpoints, answers, FirstIteration)
    IN  IF end.raised # <<>>
        THEN MinimalStructure(end.raised)
        ELSE WithSummary(end.api_structure, Len(endpoints), end.counts)

---------------------------------------------------------------------------
(* DeviceService._process_device, after discover() *)

\* lines 83-86: the two annotations
Annotate(device, failed, error) ==
    IF failed
    THEN ("auth_failed" :> TRUE) @@ ("auth_error" :> error) @@ device
    ELSE device

\* A result that counts the unauthenticated device as failed
ReturnedFailsOnAuth(generated) ==
    IF generated /\ ~auth_failed THEN "True" ELSE "False"

\* lines 88-124: True after the configuration was generated and written, False
\* after the "except" of line 120
Returned(generated) == IF generated THEN "True" ELSE "False"

\* lines 83-128; generated = FALSE: generating or writing the configuration raised
FinishDevice ==
    /\ pc = "discovered"
    /\ \E generated \in BOOLEAN :
        /\ returned' = Returned(generated)
        /\ obs' = [obs EXCEPT !.generated = generated]
    /\ device_config' = Annotate(device_config, auth_failed, auth_error)
    /\ pc' = "done"
    /\ UNCHANGED <<fleet, loop, probe>>
    /\ UNCHANGED <<environ, file, now, session, auth_token, token_store,
                   auth_failed, auth_error, response, idx, counts,
                   api_structure>>

---------------------------------------------------------------------------

Next ==
    \/ Tick
    \/ Construct
    \/ SetupAuthNone
    \/ SetupAuthBasic
    \/ SetupAuthBearer
    \/ SetupAuthToken
    \/ GetOpenidToken
    \/ RefreshOpenidToken
    \/ PasswordGrant
    \/ GetAuthToken
    \/ Discover
    \/ DiscoverFromSwagger
    \/ SampleEndpoint
    \/ SamplesDone
    \/ FinishDevice

Spec == Init /\ [][Next]_vars

\* The session is a sequential program: it keeps running while it has a step.
FairSpec == Spec /\ WF_vars(Next)

---------------------------------------------------------------------------
(* DeviceService.process_devices: the sessions of a device list, one after *)
(* the other                                                               *)

\* how many devices a configuration file lists
MaxDevices == 2

Names == <<"d1", "d2", "d3">>

\* one configuration of every authentication flow
FleetApis ==
    LET base == "base_url" :> BaseUrl
    IN  << base @@ ("auth_type" :> "none")
               @@ ("endpoints" :> <<[path |-> <<"/", "a">>, method |-> "GET"],
                                    [path |-> <<"/", "b">>]>>),
           base @@ ("auth_type" :> "basic") @@ ("username" :> Username)
               @@ ("password" :> Literal) @@ ("swagger_url" :> SwaggerUrl)
               @@ ("endpoints" :> <<[path |-> <<"/", "a">>, method |-> "GET"]>>),
           base @@ ("auth_type" :> "bearer") @@ ("token" :> RefNoName),
           base @@ ("auth_type" :> "token_from_auth")
               @@ ("auth_endpoint" :> AuthEndpoint)
               @@ ("username" :> Username) @@ ("password" :> Literal)
               @@ ("endpoints" :> <<[path |-> AuthEndpoint, method |-> "POST"],
                                    [path |-> <<"/", "a">>, method |-> "GET"]>>),
           base @@ ("auth_type" :> "bearer") @@ ("token" :> RefExported),
           base @@ ("auth_type" :> "token_from_auth")
               @@ ("auth_type_extension" :> <<"openid_connect">>)
               @@ ("auth_endpoint" :> AuthEndpoint)
               @@ ("username" :> Username) @@ ("password" :> Literal) >>

\* device_config.py lines 35-49: the device list get_devices() returns; here
\* the lists of up to MaxDevices consecutive flows, from every first flow
Fleets ==
    { [i \in 1..n |-> ("name" :> Names[i])
                          @@ ("api" :> FleetApis[((k + i - 2) % Len(FleetApis)) + 1])
                          @@ ("global" :> EmptyDict)]
      : k \in 1..Len(FleetApis), n \in 1..MaxDevices }

FleetFiles ==
    { [state |-> "missing", table |-> EmptyDict],
      [state |-> "ok",
       table |-> ("d1" :> [OtherRecord EXCEPT !["token_url"] = StoredUrl])
                     @@ ("d2" :> OtherRecord)] }

\* lines 36-38 and the first iteration of line 40
FleetInit ==
    /\ environ = EmptyDict
    /\ fleet \in {[pc |-> "running", devices |-> ds, position |-> 1,
                   successful_devices |-> 0, failed_devices |-> 0,
                   handled |-> <<>>, environ0 |-> environ] : ds \in Fleets}
    /\ device_config = fleet.devices[1]
    /\ file \in FleetFiles
    /\ now = StartTime
    /\ NewSession
    /\ obs = [NoObs EXCEPT !.environ0 = environ, !.file0 = file,
                           !.config0 = device_config]
    /\ loop = NoLoop
    /\ probe = NoProbe

\* lines 41-50: what the loop makes of _process_device; the constructor that
\* raised ends in the "except" of line 126
ProcessResult(at, result) == IF at = "raised" THEN "False" ELSE result

\* Counters that count the successes only
TalliedOnlyOk(f, name, result) ==
    [f EXCEPT !.successful_devices = IF result = "True" THEN @ + 1 ELSE @,
              !.handled = Append(@, [name |-> name, result |-> result])]

\* lines 42-50: the two counters after a device
Tallied(f, name, result) ==
    [f EXCEPT !.successful_devices = IF result = "True" THEN @ + 1 ELSE @,
              !.failed_devices = IF result = "True" THEN @ ELSE @ + 1,
              !.handled = Append(@, [name |-> name, result |-> result])]

\* lines 40-55: the device is counted; the loop goes to the next device, or
\* process_devices returns
NextDevice ==
    /\ fleet.pc = "running"
    /\ pc \in {"done", "raised"}
    /\ LET tallied == Tallied(fleet, device_config["name"], ProcessResult(pc, returned))
       IN  IF fleet.position < Len(fleet.devices)
           THEN /\ fleet' = [tallied EXCEPT !.position = @ + 1]
                /\ device_config' = fleet.devices[fleet.position + 1]
                /\ pc' = "new"
                /\ session' = [auth |-> <<>>, headers |-> EmptyDict]
                /\ auth_token' = None
                /\ token_store' = EmptyDict
                /\ auth_failed' = FALSE
                /\ auth_error' = None
                /\ response' = [kind |-> "unbound", of |-> <<>>, data |-> <<>>]
                /\ idx' = 1
                /\ counts' = [successful_endpoints |-> 0, failed_endpoints |-> 0]
                /\ api_structure' = EmptyDict
                /\ returned' = "pending"
                /\ obs' = [NoObs EXCEPT !.environ0 = environ, !.file0 = file,
                                        !.config0 = device_config']
           ELSE /\ fleet' = [tallied EXCEPT !.pc = "returned"]
                /\ UNCHANGED <<device_config, pc, session, auth_token, token_store,
                               auth_failed, auth_error, response, idx, counts,
                               api_structure, returned, obs>>
    /\ UNCHANGED <<environ, file, now, loop, probe>>

FleetNext ==
    \/ Next
    \/ NextDevice

FleetSpec == FleetInit /\ [][FleetNext]_vars

---------------------------------------------------------------------------
(* The event loop: the runs of process_devices that POST /api/devices/process *)
(* schedules, and the token-table steps of their OIDC sessions              *)

\* how many runs are posted
MaxPosts == 2

LoopApi ==
    ("base_url" :> BaseUrl) @@ ("auth_type" :> "token_from_auth")
        @@ ("auth_type_extension" :> <<"openid_connect">>)
        @@ ("auth_endpoint" :> AuthEndpoint)
        @@ ("username" :> Username) @@ ("password" :> Literal)

\* the device lists of the configuration file when a run is posted
LoopDevices == {<<"d1">>, <<"d2">>, <<"d1", "d2">>}

LoopFiles ==
    { [state |-> "missing", table |-> EmptyDict],
      [state |-> "ok", table |-> "d2" :> OtherRecord] }

\* the token answer of a grant that succeeds
LoopBody == ("access_token" :> <<"t1">>) @@ ("refresh_token" :> <<"r1">>)

\* api/routes/device.py line 22: the run as it is added
NewTask(devices) ==
    [pc |-> "queued", devices |-> devices, position |-> 1,
     token_store |-> EmptyDict, loaded |-> FALSE, read_version |-> 0]

LoopInit ==
    /\ loop = [running |-> 0, tasks |-> <<>>, version |-> 0]
    /\ file \in LoopFiles
    /\ now = StartTime
    /\ device_config = EmptyDict
    /\ environ = EmptyDict
    /\ pc = "idle"
    /\ session = [auth |-> <<>>, headers |-> EmptyDict]
    /\ auth_token = None
    /\ token_store = EmptyDict
    /\ auth_failed = FALSE
    /\ auth_error = None
    /\ response = [kind |-> "unbound", of |-> <<>>, data |-> <<>>]
    /\ idx = 1
    /\ counts = [successful_endpoints |-> 0, failed_endpoints |-> 0]
    /\ api_structure = EmptyDict
    /\ returned = "pending"
    /\ obs = NoObs
    /\ fleet = NoFleet
    /\ probe = NoProbe

\* the variables of the single session, which the runs on the loop do not use
LoopFrame ==
    UNCHANGED <<device_config, environ, now, pc, session, auth_token, token_store,
                auth_failed, auth_error, response, idx, counts, api_structure,
                returned, obs, fleet, probe>>

\* A session whose token request gives the loop to another task
SuspendsOnRequest(step) == step = "grant"

\* whether a step of the session hands the event loop back before the next
\* one: ApiDiscovery.__init__ and everything it calls are plain functions, the
\* requests and the file accesses block, and no `await` of process_devices
\* reaches a point that suspends
Suspends(step) == FALSE

\* the task that goes on after the step of task i
RunningAfter(i, step) == IF Suspends(step) THEN 0 ELSE i

\* api/routes/device.py lines 10-26: the handler, itself a coroutine of the loop
Post ==
    /\ loop.running = 0
    /\ Len(loop.tasks) < MaxPosts
    /\ \E devices \in LoopDevices :
        loop' = [loop EXCEPT !.tasks = Append(@, NewTask(devices))]
    /\ UNCHANGED file
    /\ LoopFrame

\* the loop takes a task that is ready
Dispatch ==
    /\ loop.running = 0
    /\ \E i \in 1..Len(loop.tasks) :
        /\ loop.tasks[i].pc # "finished"
        /\ loop' = [loop EXCEPT !.running = i,
                                !.tasks[i].pc = IF @ = "queued" THEN "load" ELSE @]
    /\ UNCHANGED file
    /\ LoopFrame

\* discovery.py lines 112-113: _load_token_store of the session
TaskLoad ==
    /\ loop.running # 0
    /\ LET i == loop.running
           task == loop.tasks[i]
       IN  /\ task.pc = "load"
           /\ \E load_ok \in BOOLEAN :
               /\ file.state = "missing" => load_ok
               /\ file.state = "corrupt" => ~load_ok
               /\ loop' = [loop EXCEPT
                     !.running = RunningAfter(i, "load"),
                     !.tasks[i] = [task EXCEPT
                         !.pc = "grant",
                         !.token_store = LoadTokenStore(file, EmptyDict, load_ok),
                         !.loaded = load_ok,
                         !.read_version = loop.version]]
    /\ UNCHANGED file
    /\ LoopFrame

\* discovery.py lines 115-200: the token request; granted = FALSE: the stored
\* token is reused or the request fails, and the table is left alone
TaskGrant ==
    /\ loop.running # 0
    /\ LET i == loop.running
           task == loop.tasks[i]
           name == task.devices[task.position]
       IN  /\ task.pc = "grant"
           /\ \E granted \in BOOLEAN :
               loop' = [loop EXCEPT
                   !.running = RunningAfter(i, "grant"),
                   !.tasks[i] = IF granted
                       THEN [task EXCEPT
                               !.pc = "save",
                               !.token_store =
                                   (name :> GrantedRecord(LoopApi, LoopBody, now)) @@ @]
                       ELSE [task EXCEPT !.pc = "end"]]
    /\ UNCHANGED file
    /\ LoopFrame

\* discovery.py line 202: _save_token_store of the session
TaskSave ==
    /\ loop.running # 0
    /\ LET i == loop.running
           task == loop.tasks[i]
       IN  /\ task.pc = "save"
           /\ \E outcome \in SaveOutcomes :
               /\ file' = SaveTokenStore(file, task.token_store, outcome)
               /\ loop' = [loop EXCEPT
                     !.running = RunningAfter(i, "save"),
                     !.version = IF outcome = "fail" THEN @ ELSE @ + 1,
                     !.tasks[i].pc = "end"]
    /\ LoopFrame

\* device_service.py lines 40-55: the next device of the run, or its end
TaskEnd ==
    /\ loop.running # 0
    /\ LET i == loop.running
           task == loop.tasks[i]
       IN  /\ task.pc = "end"
           /\ IF task.position < Len(task.devices)
              THEN loop' = [loop EXCEPT
                      !.tasks[i] = [task EXCEPT !.pc = "load",
                                                !.position = @ + 1,
                                                !.token_store = EmptyDict,
                                                !.loaded = FALSE]]
              ELSE loop' = [loop EXCEPT !.running = 0,
                                        !.tasks[i].pc = "finished"]
    /\ UNCHANGED file
    /\ LoopFrame

LoopNext ==
    \/ Post
    \/ Dispatch
    \/ TaskLoad
    \/ TaskGrant
    \/ TaskSave
    \/ TaskEnd

LoopSpec == LoopInit /\ [][LoopNext]_vars

----------------------------------------------------------------------------
(* The application's startup *)

\* the single session at rest, which neither the startup nor the refresh loop uses
SessionAtRest ==
    /\ now = StartTime
    /\ device_config = EmptyDict
    /\ environ = EmptyDict
    /\ pc = "idle"
    /\ session = [auth |-> <<>>, headers |-> EmptyDict]
    /\ auth_token = None
    /\ token_store = EmptyDict
    /\ auth_failed = FALSE
    /\ auth_error = None
    /\ response = [kind |-> "unbound", of |-> <<>>, data |-> <<>>]
    /\ idx = 1
    /\ counts = [successful_endpoints |-> 0, failed_endpoints |-> 0]
    /\ api_structure = EmptyDict
    /\ returned = "pending"
    /\ obs = NoObs
    /\ fleet = NoFleet
    /\ probe = NoProbe

\* core/tasks.py lines 12-18: add_task appends the two functions to the
\* BackgroundTasks object it is given and runs neither
start_background_tasks(background_tasks) ==
    background_tasks
        \o << [func |-> "process_devices", pc |-> "queued"],
              [func |-> "periodic_refresh", pc |-> "queued"] >>

\* main.py lines 20-37: before the lifespan is entered; the BackgroundTasks
\* object of line 30 does not exist yet
AppInit ==
    /\ loop = [running |-> 0, tasks |-> <<>>, version |-> 0,
               lifespan |-> "starting", background_tasks |-> <<>>]
    /\ file \in LoopFiles
    /\ SessionAtRest

\* main.py lines 30-34: the lifespan makes a BackgroundTasks object of its own,
\* has start_background_tasks fill it, and yields; the object is local to the
\* lifespan and is attached to no response, so nothing calls it afterwards
Startup ==
    /\ loop.lifespan = "starting"
    /\ loop' = [loop EXCEPT !.lifespan = "serving",
                            !.background_tasks = start_background_tasks(<<>>)]
    /\ UNCHANGED file
    /\ LoopFrame

\* main.py line 34: requests are served, and their runs dispatched, once the
\* lifespan has yielded
Serving ==
    /\ loop.lifespan = "serving"
    /\ LoopNext

AppNext ==
    \/ Startup
    \/ Serving

\* the event loop runs what is ready; a request is the client's choice
AppSpec ==
    /\ AppInit
    /\ [][AppNext]_vars
    /\ WF_vars(Startup)
    /\ WF_vars(Dispatch)
    /\ WF_vars(TaskLoad \/ TaskGrant \/ TaskSave \/ TaskEnd)

----------------------------------------------------------------------------
(* The periodic refresh, run as a coroutine of the event loop *)

\* settings.refresh_interval (core/config.py line 21), in ticks of the loop's clock
RefreshInterval == 2
\* the outcomes of the latest cycles that are remembered
MaxCycles == 4

\* core/tasks.py line 28: process_devices returns its counts or raises an
\* Exception (a configuration file that cannot be read, a file that cannot be
\* written)
CycleOutcomes == {"returned", "raised"}

\* the latest MaxCycles outcomes
Remember(outcomes, outcome) ==
    IF Len(outcomes) < MaxCycles
    THEN Append(outcomes, outcome)
    ELSE Append(Tail(outcomes), outcome)

\* the loop with an exception of the cycle leaving the coroutine
AfterCycleUncaught(outcome) == IF outcome = "raised" THEN "done" ELSE "sleep"

\* core/tasks.py lines 23-31: the try of lines 27-31 is inside `while True`,
\* and `except Exception` only logs, so the loop goes back to its sleep
\* whatever the cycle did
AfterCycle(outcome) == "sleep"

\* core/tasks.py line 21: the coroutine as it is entered
RefreshInit ==
    /\ loop = [refresh |-> [pc |-> "sleep", slept |-> 0, outcomes |-> <<>>]]
    /\ file \in LoopFiles
    /\ SessionAtRest

\* core/tasks.py line 24: the sleep goes on
Sleep ==
    /\ loop.refresh.pc = "sleep"
    /\ loop.refresh.slept < RefreshInterval
    /\ loop' = [loop EXCEPT !.refresh.slept = @ + 1]
    /\ UNCHANGED file
    /\ LoopFrame

\* core/tasks.py lines 24-28: the sleep is over and the cycle is started
Wake ==
    /\ loop.refresh.pc = "sleep"
    /\ loop.refresh.slept = RefreshInterval
    /\ loop' = [loop EXCEPT !.refresh.pc = "cycle"]
    /\ UNCHANGED file
    /\ LoopFrame

\* core/tasks.py lines 27-31: the cycle ends, and the loop goes round
Cycle ==
    /\ loop.refresh.pc = "cycle"
    /\ \E outcome \in CycleOutcomes :
        loop' = [loop EXCEPT
            !.refresh = [pc |-> AfterCycle(outcome),
                         slept |-> 0,
                         outcomes |-> Remember(@.outcomes, outcome)]]
    /\ UNCHANGED file
    /\ LoopFrame

RefreshNext ==
    \/ Sleep
    \/ Wake
    \/ Cycle

\* the timer of the sleep fires and a run of process_devices ends
RefreshSpec == RefreshInit /\ [][RefreshNext]_vars /\ WF_vars(RefreshNext)

---------------------------------------------------------------------------
(* Calls of the Structural Analyzer on JSON objects *)

\* how many items the object at the top has
MaxItems == 2

\* a string of n characters
Pad(n) == [i \in 1..n |-> "x"]

Keys == {<<"a">>, <<"b">>, <<"a", ".", "b">>}

JsonLeaves ==
    { JInt, JFloat, JBool, JNull, JStr(<<"u", "p">>),
      JStr(Pad(MaxTagLength - 1)), JStr(Pad(MaxTagLength)) }

\* the leaves below the top
InnerLeaves == {JInt, JNull, JStr(<<"u", "p">>)}

InnerDicts == {JDict(<<[key |-> k, value |-> v]>>) : k \in Keys, v \in InnerLeaves}

\* arrays whose items differ from the first one
MixedLists ==
    { JList(<<JInt, JStr(<<"u", "p">>)>>),
      JList(<<JDict(<<[key |-> <<"a">>, value |-> JInt]>>),
              JDict(<<[key |-> <<"a">>, value |-> JStr(<<"u", "p">>)]>>)>>),
      JList(<<JDict(<<[key |-> <<"a">>, value |-> JInt]>>),
              JDict(<<[key |-> <<"b">>, value |-> JInt]>>)>>),
      JList(<<JDict(<<[key |-> <<"a">>, value |-> JStr(<<"u", "p">>)]>>), JFloat>>) }

\* what an item of the top object holds: a leaf, a dict, an array of leaves
\* or of dicts, an empty container
JsonValues ==
    JsonLeaves \cup InnerDicts
        \cup {JList(<<v>>) : v \in InnerLeaves \cup InnerDicts}
        \cup MixedLists \cup {JList(<<>>), JDict(<<>>)}

JsonItems == {[key |-> k, value |-> v] : k \in Keys, v \in JsonValues}

\* the objects of up to MaxItems items with different keys
JsonInputs ==
    { JDict(items) :
        items \in UNION { { s \in [1..n -> JsonItems] :
                              \A i, j \in 1..n : i # j => s[i].key # s[j].key }
                          : n \in 0..MaxItems } }

RECURSIVE Nest(_, _)
\* bottom below n objects: the document {"a": {"a": ... bottom}}
Nest(n, bottom) ==
    IF n = 0 THEN bottom
    ELSE JDict(<<[key |-> <<"a">>, value |-> Nest(n - 1, bottom)]>>)

\* what a chain of containers ends in
Bottoms == {JInt, JNull, JStr(<<"u", "p">>), JDict(<<>>), JList(<<>>)}

\* chains of objects, bare or as the only item of an array, with the bottom
\* at depth 0 .. MaxDepth + 2
DeepInputs ==
    {Nest(n, b) : n \in 0..(MaxDepth + 1), b \in Bottoms}
        \cup {JList(<<Nest(n, b)>>) : n \in 0..(MaxDepth + 1), b \in Bottoms}

\* line 500: data = response.json()
AnalyzerInputs == JsonInputs \cup DeepInputs

\* the endpoint whose answer is analyzed
ProbeEndpoint == [path |-> <<"/", "a">>, method |-> "GET"]

AnalyzerInit ==
    /\ probe \in {[NoProbe EXCEPT !.stage = "in", !.data = d] : d \in AnalyzerInputs}
    /\ loop = NoLoop
    /\ fleet = NoFleet
    /\ file = [state |-> "missing", table |-> EmptyDict]
    /\ now = StartTime
    /\ device_config = EmptyDict
    /\ environ = EmptyDict
    /\ pc = "idle"
    /\ session = [auth |-> <<>>, headers |-> EmptyDict]
    /\ auth_token = None
    /\ token_store = EmptyDict
    /\ auth_failed = FALSE
    /\ auth_error = None
    /\ response = [kind |-> "unbound", of |-> <<>>, data |-> <<>>]
    /\ idx = 1
    /\ counts = [successful_endpoints |-> 0, failed_endpoints |-> 0]
    /\ api_structure = EmptyDict
    /\ returned = "pending"
    /\ obs = NoObs

\* lines 500-527: a JSON answer is analyzed and its descriptor is built
Analyze ==
    /\ probe.stage = "in"
    /\ LET found == AnalyzeJsonStructure(probe.data, <<>>)
           resp == [kind |-> "json", of |-> ProbeEndpoint.path, data |-> probe.data]
       IN  probe' = [probe EXCEPT !.stage = "out",
                                  !.metrics = found.metrics,
                                  !.tags = found.tags,
                                  !.is_deeply_nested = IsDeeplyNested(probe.data),
                                  !.endpoint_config =
                                      Descriptor(ProbeEndpoint, "json", resp)]
    /\ UNCHANGED <<device_config, environ, file, now, pc, session, auth_token,
                   token_store, auth_failed, auth_error, response, idx, counts,
                   api_structure, returned, obs, fleet, loop>>

AnalyzerNext == Analyze

AnalyzerSpec == AnalyzerInit /\ [][AnalyzerNext]_vars

---------------------------------------------------------------------------
(* _get_auth_token on the answers of a login endpoint *)

\* the configurations that reach _get_auth_token
LoginApis == {api \in FormApis : "auth_endpoint" \in DOMAIN api}

\* the session when _setup_auth calls _get_auth_token (line 97), and the
\* answer the login endpoint is going to give
LoginInit ==
    /\ \E api \in LoginApis :
          device_config = ("name" :> DeviceName)
                              @@ ("api" :> (("base_url" :> BaseUrl) @@ api))
                              @@ ("global" :> EmptyDict)
    /\ environ \in (IF UsesEnviron(device_config["api"]) THEN Environs ELSE {EmptyDict})
    /\ probe \in {[NoProbe EXCEPT !.stage = "login", !.data = answer]
                  : answer \in LoginAnswers}
    /\ pc = "login"
    /\ file = [state |-> "missing", table |-> EmptyDict]
    /\ now = StartTime
    /\ session = [auth |-> <<>>, headers |-> EmptyDict]
    /\ auth_token = None
    /\ token_store = EmptyDict
    /\ auth_failed = FALSE
    /\ auth_error = None
    /\ response = [kind |-> "unbound", of |-> <<>>, data |-> <<>>]
    /\ idx = 1
    /\ counts = [successful_endpoints |-> 0, failed_endpoints |-> 0]
    /\ api_structure = EmptyDict
    /\ returned = "pending"
    /\ obs = [NoObs EXCEPT !.environ0 = environ, !.file0 = file,
                           !.config0 = device_config]
    /\ fleet = NoFleet
    /\ loop = NoLoop

\* _get_auth_token against the answer at hand
LoginWithAnswer == Login({probe.data})

LoginNext == LoginWithAnswer

LoginSpec == LoginInit /\ [][LoginNext]_vars

---------------------------------------------------------------------------
(* Properties *)

SetupPcs == {"new", "setup_auth", "openid", "refresh", "password_grant", "login"}

\* ApiDiscovery(device) has returned
SetupOver == pc \in {"constructed", "swagger", "samples", "discovered", "done"}

\* the configuration carries what a password grant needs
HasCredentials ==
    {"username", "password", "auth_endpoint"} \subseteq DOMAIN device_config["api"]

HasBearer(token) ==
    /\ "Authorization" \in DOMAIN session.headers
    /\ session.headers["Authorization"] = Bearer(token)

\* C1: after a failed refresh-token grant, setup sends no second refresh grant
\* and, once over, has sent exactly one password grant.
C1_OneReauthAfterFailedRefresh ==
    obs.refresh_failed =>
        /\ obs.refresh = 1
        /\ (SetupOver /\ HasCredentials) => obs.password = 1

\* C2: authentication setup of a session terminates: the constructor returns.
C2_SetupTerminates == <>(pc \notin SetupPcs)

\* C3: after a successful refresh-token grant the device's record is the new
\* access token, expires_at = write time + expires_in (300 without one), the
\* answer's refresh token or the old one when the answer has none, the old
\* token_url and client_id; the table is saved and the session bears the new token.
C3_RefreshSuccess ==
    obs.source = "refresh" =>
        LET rec == token_store[DeviceName]
            old == obs.token_data
            body == obs.answer.body
        IN  /\ old["expires_at"] <= obs.checked_at + 60
            /\ rec["access_token"] = body["access_token"]
            /\ rec["expires_at"] = obs.written_at +
                   (IF "expires_in" \in DOMAIN body THEN body["expires_in"] ELSE 300)
            /\ rec["refresh_token"] =
                   (IF "refresh_token" \in DOMAIN body
                       THEN body["refresh_token"] ELSE old["refresh_token"])
            /\ rec["token_url"] = old["token_url"]
            /\ rec["client_id"] = old["client_id"]
            /\ DOMAIN rec = {"access_token", "refresh_token", "expires_at",
                             "token_url", "client_id"}
            /\ obs.saves = 1 /\ obs.saved = token_store
            /\ obs.save_ok => file = [state |-> "ok", table |-> token_store]
            /\ auth_token = body["access_token"]
            /\ HasBearer(body["access_token"])

C3_Witness ==
    /\ pc = "done"
    /\ obs.source = "refresh"
    /\ obs.save_ok
    /\ "refresh_token" \notin DOMAIN obs.answer.body
    /\ "expires_in" \notin DOMAIN obs.answer.body
    /\ token_store[DeviceName]["refresh_token"] = <<"r0">>

\* C4 (state part): a session that bears the stored access token found it valid
\* for more than 60 seconds, sent no token request and left the table in
\* memory and on disk as loaded.
C4_ReuseState ==
    obs.source = "stored" =>
        /\ token_store[DeviceName]["expires_at"] > obs.checked_at + 60
        /\ auth_token = token_store[DeviceName]["access_token"]
        /\ HasBearer(auth_token)
        /\ obs.refresh = 0 /\ obs.password = 0 /\ obs.saves = 0
        /\ file = obs.file0
        /\ token_store = obs.file0.table

\* C4 (step part): leaving the entry of the OIDC flow, the stored token is
\* reused exactly when the loaded record's expires_at is more than 60 seconds
\* after now.
C4_ReuseStep ==
    (pc = "openid" /\ pc' # "openid") =>
        ( (/\ DeviceName \in DOMAIN token_store'
           /\ token_store'[DeviceName]["expires_at"] > now + 60)
          <=> (pc' = "constructed" /\ obs'.source = "stored") )

\* C4: OIDC token reuse.
C4_TokenReuse == [](C4_ReuseState) /\ [][C4_ReuseStep]_vars

C4_Witness ==
    /\ pc = "done"
    /\ obs.source = "stored"
    /\ token_store[DeviceName]["expires_at"] = now + 61

\* C5: a record without a refresh token (absent or null) is never sent to a
\* refresh-token grant.
C5_NoRefreshWithoutToken ==
    /\ pc = "refresh" =>
          /\ "refresh_token" \in DOMAIN token_store[DeviceName]
          /\ token_store[DeviceName]["refresh_token"] # None
    /\ obs.refresh > 0 => obs.token_data["refresh_token"] # None

\* C6: a failed password grant ends setup with auth_failed and auth_error set,
\* and discovery then returns the empty-endpoint structure.
C6_PasswordGrantFailureFlagged ==
    (SetupOver /\ obs.password > 0 /\ obs.source # "password") =>
        /\ auth_failed /\ auth_error # None
        /\ pc \in {"discovered", "done"} =>
              api_structure = [endpoints |-> <<>>, auth_failed |-> TRUE,
                               error |-> auth_error]

\* C7: no exception leaves the constructor; a failure of setup shows as
\* auth_failed with auth_error.
C7_NeverRaises ==
    /\ pc # "raised"
    /\ auth_failed <=> auth_error # None
    /\ (~SetupOver) => ~auth_failed

C7_Witness ==
    /\ pc = "constructed"
    /\ auth_failed
    /\ auth_error = MissingAuthEndpoint

\* the credential of a basic / bearer configuration is "${VAR}" with VAR
\* missing or empty
UnsetCredential ==
    LET api == device_config["api"]
        key == IF AuthType = "basic" THEN "password" ELSE "token"
    IN  /\ AuthType \in {"basic", "bearer"}
        /\ key \in DOMAIN api
        /\ Len(api[key]) >= 3
        /\ SubSeq(api[key], 1, 2) = <<"$", "{">>
        /\ api[key][Len(api[key])] = "}"
        /\ LET var == SubSeq(api[key], 3, Len(api[key]) - 1)
           IN  var \notin DOMAIN environ \/ environ[var] = <<>>

\* C8: basic / bearer with an unset "${VAR}" credential: setup fails for the
\* device, nothing is attached to the transport, os.environ is not written.
C8_UnsetVariableFails ==
    UnsetCredential =>
        /\ environ = obs.environ0
        /\ session.auth = <<>>
        /\ "Authorization" \notin DOMAIN session.headers
        /\ SetupOver => (auth_failed /\ auth_error # None)

C8_Witness ==
    /\ UnsetCredential
    /\ pc = "done"
    /\ <<"A">> \in DOMAIN environ

\* C9: with auth_failed, discover issues no request and returns the
\* empty-endpoint structure with the marker and the captured error.
C9_AuthFailedSkipsDiscovery ==
    auth_failed =>
        /\ obs.swagger = 0 /\ obs.sample = 0
        /\ pc \notin {"swagger", "samples"}
        /\ pc \in {"discovered", "done"} =>
              api_structure = [endpoints |-> <<>>, auth_failed |-> TRUE,
                               error |-> auth_error]

C9_Witness ==
    /\ pc = "discovered"
    /\ auth_failed
    /\ "swagger_url" \in DOMAIN device_config["api"]

\* what authentication has done so far
AuthTrace ==
    <<obs.refresh, obs.password, obs.login, obs.loads, obs.saves, file,
      token_store, auth_token, environ>>

\* the first discovery request has been issued
DiscoveryBegun == obs.swagger > 0 \/ obs.sample > 0

\* C10: every authentication step precedes the first discovery request: once
\* discovery has begun the session is past setup and no authentication step
\* follows.
C10_AuthBeforeDiscovery ==
    [](DiscoveryBegun => SetupOver) /\ [][DiscoveryBegun => AuthTrace' = AuthTrace]_vars

C10_Witness ==
    /\ pc = "done"
    /\ obs.password > 0
    /\ obs.saves > 0
    /\ obs.swagger > 0
    /\ obs.sample > 0

---------------------------------------------------------------------------
(* Discovery *)

\* d without the key k
Without(d, k) == [x \in DOMAIN d \ {k} |-> d[x]]

\* discover() has returned, or raised into _process_device
DiscoverOver == pc \in {"discovered", "done"}

\* discover() returned what _discover_from_samples built
Sampled == DiscoverOver /\ "summary" \in DOMAIN api_structure

\* C11: whenever the swagger_url could not be fetched, its body could not be
\* parsed, or its document gave no usable path, what discover() returns is the
\* result of sampling: it carries the samples and the summary.
C11_SwaggerFailureFallsBack ==
    (DiscoverOver /\ obs.spec \in {"fetch", "body", "empty"}) =>
        /\ "samples" \in DOMAIN api_structure
        /\ "summary" \in DOMAIN api_structure

\* C12: a run whose swagger_url fetch failed ends with the structure that
\* sampling gives for the same configuration without swagger_url and the same
\* answers of the device, and so does the run that had no swagger_url.
C12_FallbackParity ==
    (DiscoverOver /\ ~auth_failed /\ obs.spec \in {"none", "fetch", "body"}) =>
        api_structure =
            DiscoverFromSamples(Without(obs.config0["api"], "swagger_url"), obs.answers)

C12_Witness ==
    /\ pc = "done"
    /\ obs.spec = "fetch"
    /\ "summary" \in DOMAIN api_structure
    /\ api_structure["summary"].successful_endpoints = 1
    /\ Len(api_structure["endpoints"]) = 1

\* the descriptor of an endpoint whose request failed
ErrorDescriptor(endpoint, kind) ==
    ("path" :> endpoint.path) @@ ("method" :> endpoint.method)
        @@ ("status" :> "error") @@ ("error" :> ErrorDetail(kind))

\* how many descriptors of the sequence have the status
CountStatus(descriptors, status) ==
    Cardinality({i \in 1..Len(descriptors) : descriptors[i]["status"] = status})

\* the endpoints of the list that the loop does not skip
NotSkipped(api) ==
    SelectSeq(Endpoints(api), LAMBDA e : ~IsAuthEndpoint(api, e.path))

C13_FailureStep ==
    (pc = "samples" /\ Len(obs'.answers) = Len(obs.answers) + 1) =>
        LET endpoint == Endpoints(device_config["api"])[idx]
            answer == obs'.answers[Len(obs'.answers)].answer
        IN  (Requested(endpoint) /\ answer.kind \in {"transport", "status"}) =>
                /\ api_structure'["endpoints"] =
                      Append(api_structure["endpoints"],
                             ErrorDescriptor(endpoint, answer.kind))
                /\ counts'.failed_endpoints = counts.failed_endpoints + 1
                /\ counts'.successful_endpoints = counts.successful_endpoints
                /\ pc' = "samples"
                /\ idx' = idx + 1

C13_AllVisited ==
    Sampled =>
        /\ idx = Len(Endpoints(device_config["api"])) + 1
        /\ Len(obs.answers) = Len(NotSkipped(device_config["api"]))
        /\ api_structure["summary"].failed_endpoints =
              CountStatus(api_structure["endpoints"], "error")

\* C13: a request that fails (connection error, timeout, error status) appends
\* the error descriptor of its endpoint with the detail, adds one to
\* failed_endpoints and leaves the loop running at the next endpoint; when
\* sampling returns, every endpoint of the list was visited and
\* failed_endpoints counts the error descriptors.
C13_FailureIsRecorded == [](C13_AllVisited) /\ [][C13_FailureStep]_vars

C13_Witness ==
    /\ pc = "done"
    /\ Sampled
    /\ Len(api_structure["endpoints"]) = 2
    /\ api_structure["endpoints"][1]["status"] = "error"
    /\ api_structure["endpoints"][2]["status"] = "ok"
    /\ api_structure["summary"].failed_endpoints = 1

\* the descriptors are those of the endpoints, one each, in their order
OneEach(endpoints, descriptors) ==
    /\ Len(descriptors) = Len(endpoints)
    /\ \A i \in 1..Len(endpoints) :
          /\ descriptors[i]["path"] = endpoints[i].path
          /\ descriptors[i]["method"] = endpoints[i].method

\* C14 (as stated): when sampling returns, the descriptors are those of the
\* input endpoint list, one for every endpoint, in input order.
C14_OneDescriptorPerEndpoint ==
    Sampled => OneEach(Endpoints(device_config["api"]), api_structure["endpoints"])

\* C14 (amended): when sampling returns, the descriptors are those of the
\* input endpoints that are not skipped as the auth endpoint, one for each,
\* in input order, whatever each request's outcome.
C14_OneDescriptorPerSampledEndpoint ==
    Sampled => OneEach(NotSkipped(device_config["api"]), api_structure["endpoints"])

C14_Witness ==
    /\ pc = "done"
    /\ Sampled
    /\ Len(Endpoints(device_config["api"])) = 2
    /\ Len(api_structure["endpoints"]) = 1
    /\ api_structure["endpoints"][1]["status"] = "non-json"

\* C15: under token_from_auth no request of the sampling loop goes to the
\* path that equals auth_endpoint, and that path is neither among the
\* descriptors nor among the samples.
C15_AuthEndpointNeverSampled ==
    LET api == device_config["api"]
    IN  (/\ Get(api, "auth_type", "none") = "token_from_auth"
         /\ "auth_endpoint" \in DOMAIN api
         /\ "samples" \in DOMAIN api_structure) =>
            /\ \A i \in 1..Len(obs.answers) :
                  obs.answers[i].path # api["auth_endpoint"]
            /\ \A i \in 1..Len(api_structure["endpoints"]) :
                  api_structure["endpoints"][i]["path"] # api["auth_endpoint"]
            /\ api["auth_endpoint"] \notin DOMAIN api_structure["samples"]

C15_Witness ==
    LET api == device_config["api"]
    IN  /\ pc = "done"
        /\ Sampled
        /\ Get(api, "auth_type", "none") = "token_from_auth"
        /\ "auth_endpoint" \in DOMAIN api
        /\ \E i \in 1..Len(Endpoints(api)) : Endpoints(api)[i].path = api["auth_endpoint"]
        /\ obs.sample = 1
        /\ api_structure["summary"].successful_endpoints = 1

---------------------------------------------------------------------------
(* The DeviceConfig of the session *)

RECURSIVE WithoutAll(_, _)
WithoutAll(d, keys) ==
    IF keys = {} THEN d
    ELSE LET k == CHOOSE x \in keys : TRUE
         IN  WithoutAll(Without(d, k), keys \ {k})

\* C18: at every moment of the session the DeviceConfig, its two annotations
\* set aside, equals the DeviceConfig the session was given.
C18_ConfigNotMutated ==
    WithoutAll(device_config, {"auth_failed", "auth_error"}) = obs.config0

\* C19 (as stated): after the session the DeviceConfig carries auth_failed =
\* true and the auth_error exactly when the credential manager flagged the
\* failure, and the flagged device has the empty-endpoint structure and is
\* returned as successful.
C19_AuthFailedCountsSuccessful ==
    pc = "done" =>
        /\ ("auth_failed" \in DOMAIN device_config) <=> auth_failed
        /\ ("auth_error" \in DOMAIN device_config) <=> auth_failed
        /\ auth_failed =>
              /\ api_structure = AuthFailedStructure(auth_error)
              /\ returned = "True"

\* C19 (amended): after the session the DeviceConfig carries auth_failed = true
\* and the auth_error exactly when the credential manager flagged the failure;
\* the flagged device reaches the configuration generator with the
\* empty-endpoint structure, and _process_device returns True for it exactly
\* when generating and writing its configuration did not itself fail.
C19_AuthFailureAnnotated ==
    pc = "done" =>
        /\ ("auth_failed" \in DOMAIN device_config) <=> auth_failed
        /\ ("auth_error" \in DOMAIN device_config) <=> auth_failed
        /\ auth_failed =>
              /\ device_config["auth_failed"] = TRUE
              /\ device_config["auth_error"] = auth_error
              /\ api_structure = AuthFailedStructure(auth_error)
              /\ (returned = "True") <=> obs.generated

C19_Witness ==
    /\ pc = "done"
    /\ auth_failed
    /\ device_config["auth_failed"] = TRUE
    /\ device_config["auth_error"] # None
    /\ api_structure["endpoints"] = <<>>
    /\ returned = "True"

---------------------------------------------------------------------------
(* The device list *)

\* C16: process_devices counts every device of the list once, in the order of
\* the list, whatever the device's session ended in; when it returns, every
\* device was handled and successful + failed is the number of devices.
C16_EveryDeviceHandled ==
    fleet.pc \in {"running", "returned"} =>
        /\ fleet.successful_devices + fleet.failed_devices = Len(fleet.handled)
        /\ Len(fleet.handled) <= Len(fleet.devices)
        /\ \A i \in 1..Len(fleet.handled) :
              fleet.handled[i].name = fleet.devices[i]["name"]
        /\ fleet.pc = "running" => Len(fleet.handled) = fleet.position - 1
        /\ fleet.pc = "returned" =>
              /\ Len(fleet.handled) = Len(fleet.devices)
              /\ fleet.successful_devices + fleet.failed_devices = Len(fleet.devices)

C16_Witness ==
    /\ fleet.pc = "returned"
    /\ Len(fleet.devices) = 2
    /\ fleet.handled[1].result = "False"
    /\ fleet.handled[2].result = "True"
    /\ fleet.failed_devices = 1
    /\ fleet.successful_devices = 1

---------------------------------------------------------------------------
(* The token table under several runs *)

\* the session of the task has loaded the table and is not through with it
Inside(i) == loop.tasks[i].pc \in {"grant", "save"}

---------------------------------------------------------------------------
(* The analyzer's classification *)

\* the paths of a list of Metrics or Tags
PathsOf(entries) == {entries[i].path : i \in 1..Len(entries)}

RECURSIVE LeafCount(_)
RECURSIVE LeafSum(_)
\* how many leaf values the document has
LeafCount(value) ==
    IF value.type = "dict"
    THEN LeafSum([i \in 1..Len(value.pairs) |-> value.pairs[i].value])
    ELSE IF value.type = "list"
    THEN LeafSum(value.items)
    ELSE 1

LeafSum(values) ==
    IF values = <<>> THEN 0 ELSE LeafCount(Head(values)) + LeafSum(Tail(values))

\* C20: for every JSON object the analyzer returns at most one Metric or Tag
\* per leaf value (every leaf is a Metric, a Tag, or ignored), and no path is
\* both among the Metrics and among the Tags.
C20_LeavesClassifiedOnce ==
    probe.stage = "out" =>
        /\ Len(probe.metrics) + Len(probe.tags) <= LeafCount(probe.data)
        /\ PathsOf(probe.metrics) \cap PathsOf(probe.tags) = {}

RECURSIVE LeavesOf(_)
RECURSIVE LeavesOfAll(_)
\* the leaf values of a document, in document order
LeavesOf(value) ==
    IF value.type = "dict"
    THEN LeavesOfAll([i \in 1..Len(value.pairs) |-> value.pairs[i].value])
    ELSE IF value.type = "list"
    THEN LeavesOfAll(value.items)
    ELSE <<value>>

LeavesOfAll(values) ==
    IF values = <<>> THEN <<>> ELSE LeavesOf(Head(values)) \o LeavesOfAll(Tail(values))

\* a boolean, a null, a string of 80 characters or more
IgnoredLeaf(value) ==
    \/ value.type \in {"bool", "null"}
    \/ value.type = "str" /\ Len(value.value) >= MaxTagLength

\* C21: a boolean leaf, a null leaf and a string leaf of 80 characters or
\* more produce neither a Metric nor a Tag, wherever they stand: the Metrics
\* and Tags of a document are no more than its other leaves.
C21_IgnoredLeavesYieldNothing ==
    probe.stage = "out" =>
        LET leaves == LeavesOf(probe.data)
        IN  Len(probe.metrics) + Len(probe.tags)
                <= Cardinality({i \in 1..Len(leaves) : ~IgnoredLeaf(leaves[i])})

RECURSIVE LeafPaths(_, _)
RECURSIVE LeafPathsOfItems(_, _)
\* the leaves the analysis visits, each with its dot/bracket-joined path from
\* the root: every key of an object, the first item of an array
LeafPaths(value, prefix) ==
    IF value.type = "dict"
    THEN LeafPathsOfItems(value.pairs, prefix)
    ELSE IF value.type = "list"
    THEN IF value.items = <<>> THEN <<>>
         ELSE LeafPaths(value.items[1], prefix \o <<"[*]">>)
    ELSE <<[path |-> prefix, value |-> value]>>

LeafPathsOfItems(pairs, prefix) ==
    IF pairs = <<>> THEN <<>>
    ELSE LeafPaths(Head(pairs).value,
                   IF prefix # <<>> THEN prefix \o <<".">> \o Head(pairs).key
                   ELSE Head(pairs).key)
             \o LeafPathsOfItems(Tail(pairs), prefix)

\* a path with its separators, the dots and the array marker, as underscores
Flattened(path) ==
    [i \in 1..Len(path) |-> IF path[i] \in {".", "[*]"} THEN "_" ELSE path[i]]

\* C22: a numeric leaf yields exactly one Metric: its path is the
\* dot/bracket-joined path from the root, its name is that path with the dots
\* and the array marker flattened to underscores, its type is float for a
\* fractional value and int otherwise.
C22_NumericLeafIsOneMetric ==
    probe.stage = "out" =>
        LET leaves == LeafPaths(probe.data, <<>>)
        IN  \A i \in 1..Len(leaves) :
                leaves[i].value.type \in {"int", "float"} =>
                    LET same == {j \in 1..Len(probe.metrics) :
                                    probe.metrics[j].path = leaves[i].path}
                    IN  /\ Cardinality(same) = 1
                        /\ \A j \in same :
                               probe.metrics[j] =
                                   [path |-> leaves[i].path,
                                    name |-> Flattened(leaves[i].path),
                                    type |-> leaves[i].value.type]

\* C23: a string leaf shorter than 80 characters yields exactly one Tag and
\* no Metric, and the threshold is strict: a string of 80 characters yields
\* no Tag.
C23_ShortStringIsOneTag ==
    probe.stage = "out" =>
        LET leaves == LeafPaths(probe.data, <<>>)
        IN  \A i \in 1..Len(leaves) :
                leaves[i].value.type = "str" =>
                    LET tagged == {j \in 1..Len(probe.tags) :
                                      probe.tags[j].path = leaves[i].path}
                    IN  /\ leaves[i].path \notin PathsOf(probe.metrics)
                        /\ Cardinality(tagged) =
                               IF Len(leaves[i].value.value) < MaxTagLength
                               THEN 1 ELSE 0

RECURSIVE FirstOnly(_)
\* the document with every array cut down to its first item
FirstOnly(value) ==
    IF value.type = "dict"
    THEN JDict([i \in 1..Len(value.pairs) |->
                   [key |-> value.pairs[i].key,
                    value |-> FirstOnly(value.pairs[i].value)]])
    ELSE IF value.type = "list" /\ value.items # <<>>
    THEN JList(<<FirstOnly(value.items[1])>>)
    ELSE value

\* the paths of the leaves that are reached through first items only
VisitedPaths(value) ==
    LET leaves == LeafPaths(value, <<>>)
    IN  {leaves[i].path : i \in 1..Len(leaves)}

\* C24: of a non-empty array only the first item is analyzed, with "[*]"
\* appended to the path: the Metrics and Tags are those of the document with
\* its arrays cut down to their first items, and every path found is the path
\* of a leaf reached through first items; a document of empty arrays and
\* empty objects yields no Metric and no Tag.
C24_ArraysSampleFirstItem ==
    probe.stage = "out" =>
        LET cut == AnalyzeJsonStructure(FirstOnly(probe.data), <<>>)
        IN  /\ probe.metrics = cut.metrics
            /\ probe.tags = cut.tags
            /\ PathsOf(probe.metrics) \cup PathsOf(probe.tags)
                   \subseteq VisitedPaths(probe.data)
            /\ LeavesOf(probe.data) = <<>> =>
                   probe.metrics = <<>> /\ probe.tags = <<>>

\* {"a": [{"a": 1}, {"b": 1}]} was analyzed: one Metric, a[*].a
C24_Witness ==
    /\ probe.stage = "out"
    /\ probe.data = JDict(<<[key |-> <<"a">>,
                            value |-> JList(<<JDict(<<[key |-> <<"a">>, value |-> JInt]>>),
                                              JDict(<<[key |-> <<"b">>, value |-> JInt]>>)>>)]>>)
    /\ probe.metrics = <<Metric(<<"a", "[*]", ".", "a">>, JInt)>>
    /\ probe.tags = <<>>

---------------------------------------------------------------------------
(* The deep-nesting check *)

RECURSIVE LeafDepths(_, _)
\* the depths at which the branches of a value bottom out at a value that is
\* not a container, the value itself being at `depth`
LeafDepths(value, depth) ==
    IF value.type = "dict"
    THEN UNION {LeafDepths(value.pairs[i].value, depth + 1) : i \in 1..Len(value.pairs)}
    ELSE IF value.type = "list"
    THEN UNION {LeafDepths(value.items[i], depth + 1) : i \in 1..Len(value.items)}
    ELSE {depth}

\* C25: the deep-nesting check is true exactly when some branch of the value
\* reaches depth 5 or more (the root is depth 0) before it bottoms out at a
\* value that is not a container; empty containers do not count, so a chain
\* that ends in an empty object or array at depth 5 is not deeply nested.
C25_DeepExactlyAtDepthFive ==
    probe.stage = "out" =>
        (probe.is_deeply_nested <=> \E d \in LeafDepths(probe.data, 0) : d >= MaxDepth)

\* C26: the deep-nesting verdict does not change the Metrics and Tags an
\* endpoint reports: for every JSON answer the descriptor carries the
\* analyzer's Metrics and Tags; the verdict only adds nested_json = true and,
\* when Metrics or Tags were found, the projection holding the same lists.
C26_VerdictOnlyAdds ==
    probe.stage = "out" =>
        LET config == probe.endpoint_config
            found == probe.metrics # <<>> \/ probe.tags # <<>>
        IN  /\ WithoutAll(config, {"nested_json", "jsonv2_config"})
                   = [path |-> ProbeEndpoint.path, method |-> ProbeEndpoint.method,
                      metrics |-> probe.metrics, tags |-> probe.tags,
                      status |-> "ok"]
            /\ "nested_json" \in DOMAIN config <=> probe.is_deeply_nested
            /\ "nested_json" \in DOMAIN config => config["nested_json"] = TRUE
            /\ "jsonv2_config" \in DOMAIN config <=> probe.is_deeply_nested /\ found
            /\ "jsonv2_config" \in DOMAIN config =>
                   config["jsonv2_config"] = [fields |-> probe.metrics,
                                              tags |-> probe.tags]

\* a deeply nested answer with a Metric was described
C26_Witness ==
    /\ probe.stage = "out"
    /\ probe.is_deeply_nested
    /\ probe.metrics # <<>>
    /\ "jsonv2_config" \in DOMAIN probe.endpoint_config

---------------------------------------------------------------------------
(* The form-based login *)

\* C27: in the form-based login flow, an answer that is not 2xx or that has
\* no token at token_path leaves the session with no token and no
\* Authorization header, exports no environment variable, does not set
\* auth_failed, and discovery then proceeds unauthenticated.
C27_FailedLoginIsNotFatal ==
    obs.login_answer \in {"error", "no_token"} =>
        /\ auth_token = None
        /\ "Authorization" \notin DOMAIN session.headers
        /\ session.auth = <<>>
        /\ environ = obs.environ0
        /\ ~auth_failed
        /\ pc \in {"constructed", "swagger", "samples", "discovered", "done"}
        /\ pc \in {"discovered", "done"} =>
               /\ "auth_failed" \notin DOMAIN api_structure
               /\ obs.swagger + obs.sample > 0 \/ "endpoints" \in DOMAIN api_structure

\* the login answered without a token and an endpoint was then sampled
C27_Witness ==
    /\ obs.login_answer = "no_token"
    /\ pc = "discovered"
    /\ obs.sample > 0
    /\ auth_token = None

---------------------------------------------------------------------------
(* Side effects of the credential flows *)

\* the session runs the form-based (non-OIDC) token flow
FormFlow ==
    /\ Get(device_config["api"], "auth_type", "none") = "token_from_auth"
    /\ ~IsOidc(device_config["api"])

\* a step writes os.environ only as the form-based login that extracted a
\* token, and then only DEVICE_<NAME_UPPER>_TOKEN, set to that token; a step
\* reads or writes the token file only on the OIDC path
C28_Step ==
    /\ environ' # environ =>
           /\ FormFlow
           /\ pc = "login"
           /\ obs'.login_answer = "token"
           /\ auth_token' # None
           /\ environ' = (<<"DEVICE_", Upper(device_config["name"]), "_TOKEN">>
                              :> auth_token') @@ environ
    /\ (file' # file \/ obs'.loads # obs.loads \/ obs'.saves # obs.saves) =>
           IsOidc(device_config["api"])

\* outside the form-based flow os.environ is what it was when the session
\* began; outside the OIDC flow the token file is neither read nor written
C28_Untouched ==
    /\ ~FormFlow => environ = obs.environ0
    /\ ~IsOidc(device_config["api"]) =>
           file = obs.file0 /\ obs.loads = 0 /\ obs.saves = 0

\* C28: the engine writes the process environment only in the non-OIDC
\* form-based token flow, and only the variable DEVICE_<NAME_UPPER>_TOKEN, set
\* to the extracted token after a successful login; the auth types none,
\* basic and bearer and the OIDC flow never write it, and the token file is
\* read and written on the OIDC path only.
C28_EnvironOnlyInFormFlow == [](C28_Untouched) /\ [][C28_Step]_vars

\* a form-based login exported its token
C28_Witness ==
    /\ FormFlow
    /\ obs.login_answer = "token"
    /\ <<"DEVICE_", "D1", "_TOKEN">> \in DOMAIN environ
    /\ environ[<<"DEVICE_", "D1", "_TOKEN">>] = auth_token
    /\ environ # obs.environ0

---------------------------------------------------------------------------
(* What the sessions of a run share *)

\* the environment variables the configuration of the session refers to
ReferredVariables ==
    LET api == device_config["api"]
    IN  {EnvVarName(api[k]) : k \in {k \in {"password", "token"} \cap DOMAIN api :
                                        IsEnvRef(api[k])}}

\* the credentials of the session have been resolved
SecretsResolved == pc \in {"constructed", "swagger", "samples", "discovered", "done", "raised"}

\* C29: the sessions of devices with different names share no mutable state
\* except the TokenStore: what a session reads, other than TokenStore
\* records, was not written by the session of another device.  The
\* environment variables a session has resolved had, when the session began,
\* the value they had when process_devices began.
C29_NoSharedStateButTokenStore ==
    (fleet.pc = "running" /\ SecretsResolved) =>
        \A v \in ReferredVariables :
            Get(obs.environ0, v, None) = Get(fleet.environ0, v, None)

---------------------------------------------------------------------------
(* Specification-driven discovery *)

RECURSIVE FirstSchema(_)
\* the schema of the first 2xx response that has one, absent if none has
FirstSchema(responses) ==
    IF responses = <<>>
    THEN EmptyDict
    ELSE LET r == Head(responses)
         IN  IF Head(r.status) = "2" /\ "schema" \in DOMAIN r.spec
             THEN "schema" :> r.spec["schema"]
             ELSE FirstSchema(Tail(responses))

\* the GET and POST operations of a document, in document order
GetAndPost(operations) ==
    SelectSeq(operations, LAMBDA op : op.method \in {"get", "GET", "post", "POST"})

\* C30: specification-driven discovery emits one Endpoint for every
\* path+operation of the document whose method is GET or POST and none for
\* the other methods, and the success-response schema of the Endpoint is the
\* schema of the first 2xx response of the operation that has one (absent if
\* none has).
C30_EndpointPerOperation ==
    (DiscoverOver /\ obs.spec \in {"empty", "found"}) =>
        LET operations == GetAndPost(obs.document)
        IN  /\ Len(api_structure.endpoints) = Len(operations)
            /\ \A i \in 1..Len(operations) :
                   /\ api_structure.endpoints[i].path = operations[i].path
                   /\ api_structure.endpoints[i].method = UpperMethod(operations[i].method)
                   /\ api_structure.endpoints[i].responses
                          = FirstSchema(operations[i].responses)

---------------------------------------------------------------------------
(* The refresh-token grant without a new access token *)

\* C31: every refresh-token grant that yields no new access token (transport
\* error, answer that is not 2xx, 2xx answer without access_token) leads to a
\* full re-authentication attempt: setup never ends after a refresh attempt
\* with neither a bearer token attached, nor a password grant attempted, nor
\* auth_failed set.
C31_RefreshFailureReauthenticates ==
    (SetupOver /\ obs.refresh > 0) =>
        \/ "Authorization" \in DOMAIN session.headers
        \/ obs.password > 0
        \/ auth_failed

---------------------------------------------------------------------------
(* The persisted table after a mutation *)

\* a grant changed a record of the table in memory
RecordWritten ==
    /\ pc \in {"refresh", "password_grant"}
    /\ token_store' # token_store

\* the step that changes a record in memory hands the new table to
\* _save_token_store, and the file holds it when the write succeeds
C32_Step ==
    RecordWritten =>
        /\ obs'.saved = token_store'
        /\ obs'.save_ok => file' = [state |-> "ok", table |-> token_store']

\* at the end of setup, after a write that succeeded, the file holds the
\* table in memory, with one record under the name of the device
C32_Persisted ==
    (SetupOver /\ obs.source \in {"refresh", "password"} /\ obs.save_ok) =>
        /\ file.state = "ok"
        /\ file.table = token_store
        /\ device_config["name"] \in DOMAIN file.table
        /\ file.table[device_config["name"]]["access_token"] = auth_token

\* C32: the TokenStore is saved after every mutation: whenever OIDC setup
\* changes the record of the device in memory (password grant, refresh), the
\* persisted table is rewritten in the same setup call, so at the end of
\* setup the persisted table equals the table in memory when the write
\* succeeded, with one record for the device.
C32_SavedAfterEveryMutation == [](C32_Persisted) /\ [][C32_Step]_vars

\* a refresh changed the record and the file holds the new table
C32_Witness ==
    /\ SetupOver
    /\ obs.source = "refresh"
    /\ obs.save_ok
    /\ file.table = token_store
    /\ file.table # obs.file0.table

---------------------------------------------------------------------------
(* Leaves that are array items or the root *)

\* C33: every numeric leaf and every short string leaf reachable from the
\* root through object keys and first array items is reported, a leaf that
\* is itself the first item of an array and a leaf that is the root value
\* included: the numeric leaf as a Metric with its path, the short string as
\* a Tag with its path.
C33_EveryReachableLeafReported ==
    probe.stage = "out" =>
        LET leaves == LeafPaths(probe.data, <<>>)
        IN  \A i \in 1..Len(leaves) :
                /\ leaves[i].value.type \in {"int", "float"} =>
                       leaves[i].path \in PathsOf(probe.metrics)
                /\ (leaves[i].value.type = "str"
                        /\ Len(leaves[i].value.value) < MaxTagLength) =>
                       leaves[i].path \in PathsOf(probe.tags)

---------------------------------------------------------------------------
(* The token of the form-based login *)

\* the answer that was given to the login
LoginAnswered == probe.stage = "login" /\ pc = "constructed" /\ obs.login > 0

\* the segments of the configured token_path
TokenPathOf(api) ==
    IF "token_path" \in DOMAIN api THEN <<<<"data">>, <<"token">>>> ELSE <<<<"token">>>>

RECURSIVE Follow(_, _)
\* the value reached by following the segments key by key; "nothing" when a
\* segment is missing or the value at hand is not an object
Follow(value, segments) ==
    IF segments = <<>>
    THEN value
    ELSE IF value.type # "dict" THEN [type |-> "nothing"]
    ELSE IF Head(segments) \notin DOMAIN value.items THEN [type |-> "nothing"]
    ELSE Follow(value.items[Head(segments)], Tail(segments))

\* C34: in the form-based login flow the token is the value found in the
\* JSON answer by following the dot-separated token_path (default "token")
\* key by key; if a segment is missing, an intermediate value is not an
\* object, or the value found is empty, no token is set.
C34_TokenAtTokenPath ==
    (LoginAnswered /\ probe.data.ok) =>
        LET found == Follow(probe.data.data, TokenPathOf(device_config["api"]))
        IN  IF found.type = "str" /\ found.value # <<>>
            THEN /\ auth_token = found.value
                 /\ session.headers["Authorization"] = Bearer(found.value)
            ELSE /\ auth_token = None
                 /\ "Authorization" \notin DOMAIN session.headers

\* the token was found under data.token
C34_Witness ==
    /\ LoginAnswered
    /\ "token_path" \in DOMAIN device_config["api"]
    /\ auth_token = <<"tk2">>

---------------------------------------------------------------------------
(* Startup and the periodic refresh *)

\* a function queued by the lifespan has been started
Started(func) ==
    \E i \in 1..Len(loop.background_tasks) :
        /\ loop.background_tasks[i].func = func
        /\ loop.background_tasks[i].pc # "queued"

\* C35: after startup the device processing run queued by the lifespan is
\* eventually executed without any request, and the periodic refresh, which
\* runs it again after every refresh_interval, is eventually running.
C35_StartupRunsAndRefreshes ==
    /\ <>(loop.lifespan = "serving" /\ Started("process_devices"))
    /\ <>(loop.lifespan = "serving" /\ Started("periodic_refresh"))

\* the latest cycle of the refresh loop raised
CycleFailed ==
    /\ loop.refresh.pc # "cycle"
    /\ loop.refresh.outcomes # <<>>
    /\ loop.refresh.outcomes[Len(loop.refresh.outcomes)] = "raised"

\* a cycle is started only when the whole interval has been slept
C36_Step ==
    (loop.refresh.pc # "cycle" /\ loop'.refresh.pc = "cycle")
        => (loop.refresh.pc = "sleep" /\ loop.refresh.slept = RefreshInterval)

\* C36: an exception raised by a cycle of the periodic refresh does not end
\* the loop: after a cycle that raised, the next cycle is started, and it is
\* started when refresh_interval has been slept.
C36_FailingCycleKeepsLoop ==
    /\ CycleFailed ~> (loop.refresh.pc = "cycle")
    /\ [][C36_Step]_vars

C36_Witness ==
    /\ loop.refresh.pc = "cycle"
    /\ Len(loop.refresh.outcomes) >= 2
    /\ loop.refresh.outcomes[Len(loop.refresh.outcomes)] = "raised"
    /\ loop.refresh.outcomes[Len(loop.refresh.outcomes) - 1] = "raised"

---------------------------------------------------------------------------
(* The summary of a sampling run *)

\* how many of the descriptors carry the status
WithStatus(descriptors, status) ==
    Cardinality({i \in 1..Len(descriptors) : descriptors[i]["status"] = status})

\* C37: the summary of a sampling run agrees with the endpoint list beside it:
\* total_endpoints is the number of descriptors, successful_endpoints the
\* number of those with status ok, failed_endpoints the number of those with
\* status error, whatever the endpoints and the outcomes of the requests.
C37_SummaryMatchesDescriptors ==
    Sampled =>
        LET descriptors == api_structure["endpoints"]
            summary == api_structure["summary"]
        IN  /\ summary.total_endpoints = Len(descriptors)
            /\ summary.successful_endpoints = WithStatus(descriptors, "ok")
            /\ summary.failed_endpoints = WithStatus(descriptors, "error")

\* the i-th descriptor of a sampling run comes from the answer to the request
\* of its own iteration
FromOwnAnswer(i) ==
    LET descriptor == api_structure["endpoints"][i]
        own == obs.answers[i]
    IN  /\ own.path = descriptor["path"]
        /\ own.requested
        /\ own.answer.kind = "json"
        /\ descriptor["metrics"] = AnalyzeJsonStructure(own.answer.data, <<>>).metrics
        /\ descriptor["tags"] = AnalyzeJsonStructure(own.answer.data, <<>>).tags

\* C38: every descriptor with status ok of a sampling run, and the sample
\* stored for it, comes from the answer to a request issued for that endpoint
\* in that iteration; the answer of an earlier endpoint is never used for a
\* later one, whatever the later endpoint's method.
C38_OkDescriptorFromOwnAnswer ==
    "samples" \in DOMAIN api_structure =>
        \A i \in 1..Len(api_structure["endpoints"]) :
            api_structure["endpoints"][i]["status"] = "ok" =>
                /\ i <= Len(obs.answers)
                /\ FromOwnAnswer(i)

---------------------------------------------------------------------------
(* The records of the other devices *)

\* C39: a session's save of the token table never removes another device's
\* record: whenever the persisted table can be read, every record of another
\* device that was persisted before the session is still there with the same
\* content, also when the session could not load the table.
C39_OtherRecordsKept ==
    (obs.file0.state = "ok" /\ file.state = "ok") =>
        \A d \in DOMAIN obs.file0.table :
            d # device_config["name"] =>
                /\ d \in DOMAIN file.table
                /\ file.table[d] = obs.file0.table[d]

---------------------------------------------------------------------------
(* The records the engine writes *)

TokenRecordFields ==
    {"access_token", "refresh_token", "expires_at", "token_url", "client_id"}

\* the record is complete and expires expires_in after the time t
WellFormedRecord(rec, body, t) ==
    /\ DOMAIN rec = TokenRecordFields
    /\ rec["access_token"] # <<>>
    /\ rec["access_token"] # None
    /\ rec["access_token"] = body["access_token"]
    /\ rec["expires_at"] =
           t + (IF "expires_in" \in DOMAIN body THEN body["expires_in"]
                                                ELSE DefaultExpiresIn)

\* a token request whose step changes the table in memory or the file does so
\* for a 2xx answer that carries an access token, and what it writes is one
\* complete record, under the name of the device
C40_Step ==
    (pc \in {"refresh", "password_grant"}
        /\ (token_store' # token_store \/ file' # file)) =>
        LET name == device_config["name"]
            body == obs'.answer.body
        IN  /\ obs'.answer.ok
            /\ "access_token" \in DOMAIN body
            /\ name \in DOMAIN token_store'
            /\ WellFormedRecord(token_store'[name], body, now)
            /\ \A d \in DOMAIN token_store' :
                  d # name => (d \in DOMAIN token_store /\ token_store'[d] = token_store[d])

\* C40: every TokenRecord the engine writes has a non-empty access_token and
\* the five fields access_token, refresh_token, expires_at, token_url and
\* client_id, with expires_at the time of the write plus expires_in; a token
\* answer without access_token neither creates nor changes a record.
C40_WrittenRecordsWellFormed == [][C40_Step]_vars

\* a password grant has replaced the stored record of the device by one with
\* the lifetime of the answer
C40_Witness ==
    /\ SetupOver
    /\ obs.source = "password"
    /\ obs.file0.state = "ok"
    /\ device_config["name"] \in DOMAIN obs.file0.table
    /\ "expires_in" \in DOMAIN obs.answer.body
    /\ token_store[device_config["name"]]["expires_at"]
           = obs.written_at + obs.answer.body["expires_in"]
    /\ token_store[device_config["name"]] # obs.file0.table[device_config["name"]]

====
